---- MODULE Spec2Model ----
(***************************************************************************)
(* Blockchain monitoring core of OMNI crypto payments: the Bitcoin monitor *)
(* (ZMQ driven) and the Zcash monitor (poll driven) over the shared        *)
(* payments / blockchain_transactions / webhook_events tables.             *)
(*                                                                         *)
(* Every `await` of a handler is a suspension point, so a handler is a     *)
(* task with a program counter; one action per awaited call.  The two      *)
(* monitors are separate worker processes (src/workers); a behaviour runs  *)
(* one of them, chosen in Init, against the shared tables.                 *)
(***************************************************************************)
EXTENDS Integers, Sequences, FiniteSets, TLC

\* ---------------------------------------------------------------- bounds
Threshold == 2        \* confirmationThreshold the monitor is configured with
MaxBlocks == 2        \* blocks mined in a behaviour
MaxTx == 2            \* transactions broadcast in a behaviour
MaxInvocations == 3   \* handler invocations (polls, ZMQ messages, timer sweeps)
MaxFailures == 1      \* repository writes that fail in a behaviour
MaxEnv == 3          \* events of the chain and of the payment service in a behaviour
MaxQueue == 2         \* undelivered ZMQ messages kept

\* ----------------------------------------------------------------- world
Chains == {"BTC", "ZEC"}
Pay == {"pb", "pz"}
PayCur == [pb |-> "BTC", pz |-> "ZEC"]
PayAddr == [pb |-> "bc1qa", pz |-> "t1zb"]
Tx == {"tb1", "tb2", "tz1", "tz2"}
TxCur == [tb1 |-> "BTC", tb2 |-> "BTC", tz1 |-> "ZEC", tz2 |-> "ZEC"]
\* the single output address of each transaction
TxTo == [tb1 |-> "bc1qa", tb2 |-> "bc1qa", tz1 |-> "t1zb", tz2 |-> "t1zb"]
TxOrder == <<"tb1", "tb2", "tz1", "tz2">>
NoTx == "null"
NoPay == "null"
Task == {1, 2}

VARIABLES
  worker,                    \* which monitor process this behaviour runs
  isRunning,                 \* BitcoinMonitor.isRunning / ZcashMonitor.isRunning
  payments,                  \* table payments
  blockchain_transactions,   \* table blockchain_transactions, in insertion order
  webhook_events,            \* table webhook_events, as a count per (payment, type)
  tip,                       \* chain height of the node
  chainTx,                   \* per tx: -1 unknown to the node, 0 in mempool, h >= 1 mined at h
  addressCache,              \* addressCache / transparentAddressCache
  lastScannedBlockHeight,    \* ZcashMonitor.lastScannedBlockHeight
  zmq,                       \* messages the ZmqSubscriber has not yet delivered
  isConnected,               \* ZmqSubscriber.isConnected
  startHeight,               \* blockchainInfo.blocks read by initialize()
  task,                      \* the in-flight handler invocations
  invocations,               \* handler invocations started so far
  failures,                  \* repository failures so far
  transitions,               \* history: pending -> detected writes performed per payment
  everConfirmed,             \* history: payments that have been in status confirmed
  expiryPassed,              \* per payment: expires_at < NOW()
  envSteps,                  \* number of environment events so far
  rpc,                       \* one BlockchainRpcClient and its call() in progress
  conf,                      \* one getTransactionConfirmations(txid) call in progress
  memo,                      \* one memo taken through ZcashRpcClient.encodeMemo / decodeMemo
  sub,                       \* one ZmqSubscriber: its fields, sockets and listening loops
  zm,                        \* one ZcashMonitor with shielded payments: caches, view keys, amounts
  mon,                       \* one monitor's life cycle: initialize, start, stop, timers, handlers
  mo                         \* BitcoinMonitor.onNewTransaction on transactions with several outputs

dbvars == <<payments, blockchain_transactions, webhook_events>>
monitorvars == <<worker, isRunning, payments, blockchain_transactions, webhook_events, tip,
                 chainTx, addressCache, lastScannedBlockHeight, zmq, isConnected, startHeight,
                 task, invocations, failures, transitions, everConfirmed, expiryPassed, envSteps>>

clientvars == <<rpc, conf, memo, sub, zm, mon, mo>>
vars == <<monitorvars, clientvars>>

\* ------------------------------------------------------------- the tables
DB == [payments |-> payments,
       blockchain_transactions |-> blockchain_transactions,
       webhook_events |-> webhook_events]

EvKey == Pay \X {"payment.detected", "payment.confirmed"}

RECURSIVE SelectTx(_, _)
\* the members of set S in the order of TxOrder (from index i on)
SelectTx(S, i) ==
  IF i > Len(TxOrder) THEN <<>>
  ELSE (IF TxOrder[i] \in S THEN <<TxOrder[i]>> ELSE <<>>) \o SelectTx(S, i + 1)

\* confirmations the node reports for a transaction it knows
Confirmations(t) == IF chainTx[t] <= 0 THEN 0 ELSE tip - chainTx[t] + 1

\* BlockchainRpcClient.getTransactionConfirmations: 0 in mempool, -1 if not found
getTransactionConfirmations(t) == IF chainTx[t] = -1 THEN -1 ELSE Confirmations(t)

\* BlockchainTransactionRepository.findByTxid: SELECT ... WHERE txid = $1
findByTxid(D, t) == \E i \in 1..Len(D.blockchain_transactions) :
                       D.blockchain_transactions[i].txid = t

\* PaymentRepository.findByCryptoAddress: SELECT ... WHERE crypto_address = $1
findByCryptoAddress(D, a) ==
  IF \E p \in Pay : PayAddr[p] = a THEN CHOOSE p \in Pay : PayAddr[p] = a ELSE NoPay

\* PaymentRepository.findByStatus(['pending','detected']) filtered by currency,
\* mapped to the addresses: the content of a refreshed cache
findByStatus(D, cur) ==
  {PayAddr[p] : p \in {q \in Pay : /\ D.payments[q].status \in {"pending", "detected"}
                                   /\ PayCur[q] = cur}}

\* UNIQUE(crypto_currency, txid, to_address) of blockchain_transactions
UniqueViolation(D, row) ==
  \E i \in 1..Len(D.blockchain_transactions) :
     /\ D.blockchain_transactions[i].crypto_currency = row.crypto_currency
     /\ D.blockchain_transactions[i].txid = row.txid
     /\ D.blockchain_transactions[i].to_address = row.to_address

createNoConstraint(D, row) ==
  [ok |-> TRUE,
   db |-> [D EXCEPT !.blockchain_transactions = Append(@, row)]]

\* BlockchainTransactionRepository.create: INSERT; the constraint makes it throw
create(D, row) ==
  IF UniqueViolation(D, row)
  THEN [ok |-> FALSE, db |-> D]
  ELSE [ok |-> TRUE, db |-> [D EXCEPT !.blockchain_transactions = Append(@, row)]]

\* PaymentRepository.markAsDetected: UPDATE ... SET status='detected', detected_at=NOW() WHERE id=$1
markAsDetected(D, p) ==
  [D EXCEPT !.payments[p].status = "detected",
            !.payments[p].detected_at = @ + 1]

\* PaymentRepository.linkTransaction: UPDATE ... SET txid=$1 WHERE id=$2
linkTransaction(D, p, t) == [D EXCEPT !.payments[p].txid = t]

\* PaymentRepository.markAsConfirmed: UPDATE ... SET status='confirmed', confirmed_at=NOW() WHERE id=$1
markAsConfirmed(D, p) ==
  [D EXCEPT !.payments[p].status = "confirmed",
            !.payments[p].confirmed_at = @ + 1]

\* PaymentRepository.update(id, {confirmations})
updatePayment(D, p, c) == [D EXCEPT !.payments[p].confirmations = c]

\* WebhookEventRepository.create
createEvent(D, p, type) == [D EXCEPT !.webhook_events[<<p, type>>] = @ + 1]

\* BlockchainTransactionRepository.updateConfirmations: UPDATE ... WHERE txid = $2
updateConfirmations(D, t, c) ==
  [D EXCEPT !.blockchain_transactions =
     [i \in 1..Len(@) |-> IF @[i].txid = t THEN [@[i] EXCEPT !.confirmations = c] ELSE @[i]]]

\* BlockchainTransactionRepository.findByPaymentId: SELECT ... WHERE payment_id = $1
findByPaymentId(rows, p) == SelectSeq(rows, LAMBDA r : r.payment_id = p)

\* BlockchainTransactionRepository.findUnconfirmedTransactions(currency, threshold)
findUnconfirmedTransactions(D, cur) ==
  SelectSeq(D.blockchain_transactions,
            LAMBDA r : r.crypto_currency = cur /\ r.confirmations < Threshold)

\* --------------------------------------------------------------- the tasks
\* blockchain_transactions.block_height IS NULL (mined heights start at 1)
NoBlock == 0

NoItem == [txid |-> NoTx, to_address |-> "", confirmations |-> 0, payment_id |-> NoPay]

\* a task that runs no handler.  sawPending .. overlapped are history of the
\* invocation (what it did, and whether it ran while the other task was running)
Idle == [pc |-> "idle", kind |-> "none", items |-> <<>>, cur |-> NoItem, conf |-> 0,
         pid |-> NoPay, pstatus |-> "none", height |-> 0, addresses |-> {},
         err |-> "none", sawPending |-> NoPay, created |-> FALSE, emitted |-> FALSE,
         confirmedPid |-> NoPay, confirmedEvent |-> FALSE, overlapped |-> FALSE]

Active(l) == l.pc \notin {"idle", "done"}

\* the handler has returned; only the history of the invocation is kept
Done(l) == [Idle EXCEPT !.pc = "done", !.err = l.err, !.sawPending = l.sawPending,
                        !.created = l.created, !.emitted = l.emitted,
                        !.confirmedPid = l.confirmedPid,
                        !.confirmedEvent = l.confirmedEvent, !.overlapped = l.overlapped]

SweepPcs == {"s_find", "s_getConfirmations", "s_updateConfirmations", "s_findById",
             "s_updatePayment", "s_markAsConfirmed", "s_createEvent"}

Item(t) == [NoItem EXCEPT !.txid = t, !.to_address = TxTo[t]]

Res(D, l, hist) == [db |-> D, l |-> l, hist |-> hist]

BeginItem(l, pc) == [l EXCEPT !.pc = pc, !.cur = Head(l.items), !.items = Tail(l.items),
                              !.conf = 0, !.pid = NoPay, !.pstatus = "none"]

\* ZcashMonitor.scanTransparentAddresses, up to the listUnspent call; with an empty
\* cache it returns at once, and so does scanShieldedAddresses (no shielded
\* payment exists in this world), which ends pollBlockchain
ToScan(l) ==
  IF addressCache = {} THEN Done(l)
  ELSE [l EXCEPT !.pc = "z_listUnspent", !.addresses = addressCache, !.items = <<>>,
                 !.cur = NoItem, !.conf = 0, !.pid = NoPay, !.pstatus = "none"]

\* the head of the loops over utxos (Zcash) and over vouts (Bitcoin, which looks
\* each output address up in the cache)
ScanNext(l) ==
  IF l.kind = "zpoll"
  THEN IF l.items = <<>> THEN Done(l) ELSE BeginItem(l, "z_findByTxid")
  ELSE LET rest == SelectSeq(l.items, LAMBDA it : it.to_address \in addressCache)
       IN IF rest = <<>> THEN Done(l)
          ELSE BeginItem([l EXCEPT !.items = rest], "b_getRawTransaction")

\* the head of the loop of updateAllConfirmations and its return
SweepNext(l) ==
  IF l.items # <<>> THEN BeginItem(l, "s_getConfirmations")
  ELSE IF l.kind = "zpoll" THEN ToScan(l) ELSE Done(l)

\* ---- ZcashMonitor.pollBlockchain
z_getBlockCount(D, l) ==
  IF tip > lastScannedBlockHeight
  THEN Res(D, [l EXCEPT !.pc = "s_find", !.height = tip], "none")
  ELSE Res(D, ToScan([l EXCEPT !.height = tip]), "none")

\* rpcClient.listUnspent(0, 9999999, addresses)
z_listUnspent(D, l) ==
  LET found == SelectTx({t \in Tx : /\ TxCur[t] = "ZEC" /\ chainTx[t] >= 0
                                    /\ TxTo[t] \in l.addresses}, 1)
  IN Res(D, ScanNext([l EXCEPT !.addresses = {},
                               !.items = [i \in 1..Len(found) |-> Item(found[i])]]), "none")

z_findByTxid(D, l) ==
  IF findByTxid(D, l.cur.txid) THEN Res(D, ScanNext(l), "none")
  ELSE Res(D, [l EXCEPT !.pc = "z_findByCryptoAddress"], "none")

z_findByCryptoAddress(D, l) ==
  LET p == findByCryptoAddress(D, l.cur.to_address)
  IN IF p = NoPay \/ PayCur[p] # "ZEC" THEN Res(D, ScanNext(l), "none")
     ELSE Res(D, [l EXCEPT !.pc = "z_getRawTransaction", !.pid = p,
                           !.pstatus = D.payments[p].status], "none")

z_getRawTransaction(D, l) ==
  Res(D, [l EXCEPT !.pc = "d_findByTxid", !.conf = Confirmations(l.cur.txid)], "none")

\* ---- BitcoinMonitor.onNewTransaction
b_decodeRawTransaction(D, l) ==
  Res(D, ScanNext([l EXCEPT !.items = <<l.cur>>]), "none")

b_getRawTransaction(D, l) ==
  Res(D, [l EXCEPT !.pc = "b_matchTransactionToPayment",
                   !.conf = Confirmations(l.cur.txid)], "none")

\* BitcoinMonitor.matchTransactionToPayment
b_matchTransactionToPayment(D, l) ==
  LET a == TxTo[l.cur.txid]
      p == findByCryptoAddress(D, a)
  IN IF /\ a \in addressCache
        /\ p # NoPay
        /\ PayCur[p] = "BTC"
        /\ D.payments[p].status = "pending"
     THEN Res(D, [l EXCEPT !.pc = "d_findByTxid", !.pid = p, !.pstatus = "pending"], "none")
     ELSE Res(D, ScanNext(l), "none")

\* ---- processTransaction / processZcashTransaction and markPaymentDetected
d_findByTxidSkipsCreate(D, l) ==
  IF findByTxid(D, l.cur.txid)
  THEN Res(D, [l EXCEPT !.pc = "d_markAsDetected"], "none")
  ELSE Res(D, [l EXCEPT !.pc = "d_create"], "none")

\* "Check if already processed"
d_findByTxid(D, l) ==
  IF findByTxid(D, l.cur.txid) THEN Res(D, ScanNext(l), "none")
  ELSE Res(D, [l EXCEPT !.pc = "d_create"], "none")

\* create() counting the mempool sighting as a first confirmation
d_createCountsSighting(D, l, fail) ==
  LET row == [payment_id |-> l.pid,
              crypto_currency |-> IF l.kind = "zpoll" THEN "ZEC" ELSE "BTC",
              txid |-> l.cur.txid,
              to_address |-> PayAddr[l.pid],
              confirmations |-> IF l.conf = 0 THEN 1 ELSE l.conf,
              block_height |-> NoBlock]
      r == create(D, row)
  IN IF fail THEN Res(D, ScanNext([l EXCEPT !.err = "db"]), "none")
     ELSE IF ~r.ok THEN Res(D, ScanNext([l EXCEPT !.err = "unique"]), "none")
     ELSE Res(r.db, [l EXCEPT !.pc = "d_markAsDetected",
                              !.sawPending = IF l.pstatus = "pending" THEN l.pid ELSE @,
                              !.created = @ \/ l.pstatus = "pending"], "none")

\* blockchainTransactionRepository.create({... confirmations: tx.confirmations || 0,
\* block_height: undefined ...}) inside processTransaction / processZcashTransaction
d_create(D, l, fail) ==
  LET row == [payment_id |-> l.pid,
              crypto_currency |-> IF l.kind = "zpoll" THEN "ZEC" ELSE "BTC",
              txid |-> l.cur.txid,
              to_address |-> PayAddr[l.pid],
              confirmations |-> l.conf,
              block_height |-> NoBlock]
      r == create(D, row)
  IN IF fail THEN Res(D, ScanNext([l EXCEPT !.err = "db"]), "none")
     ELSE IF ~r.ok THEN Res(D, ScanNext([l EXCEPT !.err = "unique"]), "none")
     ELSE Res(r.db, [l EXCEPT !.pc = "d_markAsDetected",
                              !.sawPending = IF l.pstatus = "pending" THEN l.pid ELSE @,
                              !.created = @ \/ l.pstatus = "pending"], "none")

d_markAsDetected(D, l, fail) ==
  IF fail THEN Res(D, ScanNext([l EXCEPT !.err = "db"]), "none")
  ELSE Res(markAsDetected(D, l.pid), [l EXCEPT !.pc = "d_linkTransaction"],
           IF D.payments[l.pid].status = "pending" THEN "detected" ELSE "none")

d_linkTransaction(D, l, fail) ==
  IF fail THEN Res(D, ScanNext([l EXCEPT !.err = "db"]), "none")
  ELSE Res(linkTransaction(D, l.pid, l.cur.txid), [l EXCEPT !.pc = "d_createEvent"], "none")

d_createEvent(D, l, fail) ==
  IF fail THEN Res(D, ScanNext([l EXCEPT !.err = "db"]), "none")
  ELSE Res(createEvent(D, l.pid, "payment.detected"),
           ScanNext([l EXCEPT !.emitted = @ \/ l.pstatus = "pending"]), "none")

\* ---- updateAllConfirmations, updatePaymentConfirmations, markPaymentConfirmed
s_find(D, l) ==
  LET rows == findUnconfirmedTransactions(D, IF l.kind = "zpoll" THEN "ZEC" ELSE "BTC")
  IN Res(D, SweepNext([l EXCEPT !.items =
            [i \in 1..Len(rows) |-> [txid |-> rows[i].txid,
                                     to_address |-> rows[i].to_address,
                                     confirmations |-> rows[i].confirmations,
                                     payment_id |-> rows[i].payment_id]]]), "none")

s_getConfirmations(D, l) ==
  LET c == getTransactionConfirmations(l.cur.txid)
  IN IF c = -1 \/ c = l.cur.confirmations THEN Res(D, SweepNext(l), "none")
     ELSE Res(D, [l EXCEPT !.pc = "s_updateConfirmations", !.conf = c], "none")

s_updateConfirmations(D, l, fail) ==
  IF fail THEN Res(D, SweepNext([l EXCEPT !.err = "db"]), "none")
  ELSE Res(updateConfirmations(D, l.cur.txid, l.conf),
           [l EXCEPT !.pc = "s_findById"], "none")

s_findById(D, l) ==
  Res(D, [l EXCEPT !.pc = "s_updatePayment", !.pid = l.cur.payment_id,
                   !.pstatus = D.payments[l.cur.payment_id].status], "none")

s_updatePaymentStrict(D, l, fail) ==
  IF fail THEN Res(D, SweepNext([l EXCEPT !.err = "db"]), "none")
  ELSE IF l.conf > Threshold /\ l.pstatus # "confirmed"
       THEN Res(updatePayment(D, l.pid, l.conf), [l EXCEPT !.pc = "s_markAsConfirmed"], "none")
       ELSE Res(updatePayment(D, l.pid, l.conf), SweepNext(l), "none")

\* updatePaymentConfirmations: paymentRepository.update, then the threshold test
s_updatePayment(D, l, fail) ==
  IF fail THEN Res(D, SweepNext([l EXCEPT !.err = "db"]), "none")
  ELSE IF l.conf >= Threshold /\ l.pstatus # "confirmed"
       THEN Res(updatePayment(D, l.pid, l.conf), [l EXCEPT !.pc = "s_markAsConfirmed"], "none")
       ELSE Res(updatePayment(D, l.pid, l.conf), SweepNext(l), "none")

s_markAsConfirmed(D, l, fail) ==
  IF fail THEN Res(D, SweepNext([l EXCEPT !.err = "db"]), "none")
  ELSE Res(markAsConfirmed(D, l.pid),
           [l EXCEPT !.pc = "s_createEvent", !.confirmedPid = l.pid], "confirmed")

s_createEvent(D, l, fail) ==
  IF fail THEN Res(D, SweepNext([l EXCEPT !.err = "db"]), "none")
  ELSE Res(createEvent(D, l.pid, "payment.confirmed"),
           SweepNext([l EXCEPT !.confirmedEvent = TRUE]), "none")

\* ------------------------------------------------- BlockchainRpcClient.call
\* config.maxRetries || 3 and config.retryDelayMs || 1000
DefaultMaxRetries == 3
DefaultRetryDelayMs == 1000

\* the largest maxRetries a client is constructed with (0: not configured)
MaxConfigRetries == 4
\* the retryDelayMs values a client is constructed with (0: not configured)
RetryDelays == {0, 250}

\* error codes a node puts in the error object of its reply ("0": no code)
NodeCodes == {"-32601", "-32602", "-5", "-8", "-28", "0"}

\* what client.post('/') meets: an HTTP reply (status, error object's code, result
\* field) or no reply at all (net: the axios error code)
Reply(status, code, result, net) ==
  [status |-> status, code |-> code, result |-> result, net |-> net]

Replies ==
  {Reply("200", "", r, "") : r \in {"r1", "r2"}}
  \cup {Reply("200", c, "", "") : c \in NodeCodes}
  \cup {Reply("404", "-32601", "", ""), Reply("500", "-5", "", ""),
        Reply("500", "", "", ""), Reply("401", "", "", "")}
  \cup {Reply("", "", "", n) : n \in {"ECONNREFUSED", "ETIMEDOUT", "ENOTFOUND"}}

\* the attempt does not throw: a 2xx reply whose data.error is null
Succeeds(reply) == reply.status = "200" /\ reply.code = ""

NoError == [cls |-> "none", code |-> "", status |-> "", body |-> ""]

\* what the catch block of call() receives: the RpcError call() throws for a 2xx
\* reply with an error object (code || -1), or the AxiosError axios rejects with
\* for a non-2xx reply or for no reply
Thrown(reply) ==
  IF reply.status = "200"
  THEN [cls |-> "RpcError", code |-> IF reply.code = "0" THEN "-1" ELSE reply.code,
        status |-> "", body |-> ""]
  ELSE [cls |-> "AxiosError",
        code |-> IF reply.status = "" THEN reply.net ELSE "ERR_BAD_RESPONSE",
        status |-> reply.status, body |-> reply.code]

\* BlockchainRpcClient.handleRpcError
handleRpcError(error) ==
  IF error.cls = "RpcError" THEN error
  ELSE IF error.code \in {"ECONNREFUSED", "ETIMEDOUT"}
       THEN [cls |-> "RpcError", code |-> error.code, status |-> "", body |-> ""]
       ELSE IF error.status # ""
            THEN [cls |-> "RpcError", code |-> error.status, status |-> "", body |-> ""]
            ELSE error

\* BlockchainRpcClient.shouldNotRetry
shouldNotRetry(error) ==
  error.cls = "RpcError" /\ error.code \in {"-32601", "-32602", "-5", "-8"}

\* Math.pow(2, n)
RECURSIVE Pow2(_)
Pow2(n) == IF n = 0 THEN 1 ELSE 2 * Pow2(n - 1)

\* a backoff that grows by retryDelayMs per attempt
retryDelayLinear(c, attempt) == c.retryDelayMs * attempt

\* const delay = this.config.retryDelayMs * Math.pow(2, attempt - 1)
retryDelay(c, attempt) == c.retryDelayMs * Pow2(attempt - 1)

\* no client constructed yet.  cfgMaxRetries, cfgRetryDelayMs: the RpcConfig the
\* constructor was given; replies, sleeps: what the call in progress met and the
\* delays it slept
NoClient ==
  [pc |-> "unconstructed", cfgMaxRetries |-> 0, cfgRetryDelayMs |-> 0,
   maxRetries |-> 0, retryDelayMs |-> 0, attempt |-> 0, lastError |-> NoError,
   replies |-> <<>>, sleeps |-> <<>>, result |-> ""]

\* the constructor: this.config = { maxRetries: config.maxRetries || 3, ... }
construct(m, d) ==
  [NoClient EXCEPT !.pc = "idle", !.cfgMaxRetries = m, !.cfgRetryDelayMs = d,
                   !.maxRetries = IF m = 0 THEN DefaultMaxRetries ELSE m,
                   !.retryDelayMs = IF d = 0 THEN DefaultRetryDelayMs ELSE d]

\* call(): up to the first client.post
call_begin(c) ==
  [c EXCEPT !.pc = "post", !.attempt = 1, !.lastError = NoError, !.replies = <<>>,
            !.sleeps = <<>>, !.result = ""]

\* call(): client.post answers; return, throw, or go to sleep before the next attempt
call_post(c, reply) ==
  LET c1 == [c EXCEPT !.replies = Append(@, reply)]
      c2 == [c1 EXCEPT !.lastError = handleRpcError(Thrown(reply))]
  IN IF Succeeds(reply) THEN [c1 EXCEPT !.pc = "returned", !.result = reply.result]
     ELSE IF shouldNotRetry(Thrown(reply)) THEN [c2 EXCEPT !.pc = "thrown"]
     ELSE IF c.attempt < c.maxRetries
          THEN [c2 EXCEPT !.pc = "sleep", !.sleeps = Append(@, retryDelay(c, c.attempt))]
          ELSE [c2 EXCEPT !.pc = "thrown"]

\* call(): the sleep is over; while (attempt < maxRetries) { attempt++; ...
call_sleep(c) == [c EXCEPT !.pc = "post", !.attempt = @ + 1]

\* ------------------------ getTransactionConfirmations of the two RPC clients
\* the most confirmations the node reports for the transaction asked about
MaxConfs == 2

\* how one RPC of the call ends: the node answers (an error object arriving in a
\* 2xx reply or with HTTP 500), or the connection is refused on every attempt
RpcOutcomes == {"200", "500", "ECONNREFUSED"}

\* the code of the error call() throws when the node answers "not found" (-5), and
\* when the connection is refused
NotFoundCode(o) == handleRpcError(Thrown(Reply(o, "-5", "", ""))).code
RefusedCode == handleRpcError(Thrown(Reply("", "", "", "ECONNREFUSED"))).code

\* no call in progress.  node: what the node knows of the transaction (-1 nothing,
\* 0 in its mempool, n >= 1 mined with n confirmations); transport: an RPC of this
\* call failed in transport
NoCall == [pc |-> "idle", chain |-> "BTC", node |-> -1, transport |-> FALSE, result |-> 0]

gtc_begin(chain, node) ==
  [NoCall EXCEPT !.pc = "getRawTransaction", !.chain = chain, !.node = node]

\* try { tx = await this.getRawTransaction(txid, true); return tx.confirmations || 0 }
\* catch (error) { ... }: every error leads to the mempool check
gtc_getRawTransaction(c, o) ==
  IF o = "ECONNREFUSED" THEN [c EXCEPT !.pc = "isTransactionInMempool", !.transport = TRUE]
  ELSE IF c.node = -1 THEN [c EXCEPT !.pc = "isTransactionInMempool"]
  ELSE [c EXCEPT !.pc = "returned", !.result = c.node]

\* BitcoinRpcClient.isTransactionInMempool: getMempoolEntry, false only on error
\* code -5, other errors rethrown; ZcashRpcClient.isTransactionInMempool:
\* getRawMempool().includes(txid), false on every error.  Then return 0 or -1
gtc_isTransactionInMempool(c, o) ==
  IF c.chain = "BTC"
  THEN IF o = "ECONNREFUSED"
       THEN [c EXCEPT !.pc = IF RefusedCode = "-5" THEN "returned" ELSE "thrown",
                      !.result = -1, !.transport = TRUE]
       ELSE IF c.node = 0 THEN [c EXCEPT !.pc = "returned", !.result = 0]
       ELSE [c EXCEPT !.pc = IF NotFoundCode(o) = "-5" THEN "returned" ELSE "thrown",
                      !.result = -1]
  ELSE IF o = "ECONNREFUSED"
       THEN [c EXCEPT !.pc = "returned", !.result = -1, !.transport = TRUE]
       ELSE [c EXCEPT !.pc = "returned", !.result = IF c.node = 0 THEN 0 ELSE -1]

\* ------------------------------------- ZcashRpcClient.encodeMemo / decodeMemo
\* if (buffer.length > 512)
MemoLimit == 512

\* A memo is a JavaScript string: a sequence of UTF-16 code units.  The units the
\* memos are made of: "a", NUL, U+00E9, U+20AC, and the surrogates D83D, DE00
\* (together U+1F600)
MemoUnits == {97, 0, 233, 8364, 55357, 56832}

\* the longest memo built from arbitrary units
MaxMemoLen == 2

Rep(u, n) == [i \in 1..n |-> u]

\* the memos encoded: every short one, and runs whose encodings are just below,
\* at and just above the limit, in characters of one to four bytes
MemoInputs ==
  UNION {[1..n -> MemoUnits] : n \in 0..MaxMemoLen}
  \cup {Rep(97, n) : n \in (MemoLimit - 1)..(MemoLimit + 1)}
  \cup {Rep(233, n) : n \in ((MemoLimit \div 2) - 1)..((MemoLimit \div 2) + 1)}
  \cup {Rep(8364, n) : n \in (MemoLimit \div 3)..((MemoLimit \div 3) + 1)}
  \cup {[i \in 1..(2 * n) |-> IF i % 2 = 1 THEN 55357 ELSE 56832] :
          n \in (MemoLimit \div 4)..((MemoLimit \div 4) + 1)}
  \cup {Rep(97, n) \o <<233>> : n \in (MemoLimit - 2)..(MemoLimit - 1)}

IsHigh(u) == u \in 55296..56319
IsLow(u) == u \in 56320..57343

\* the UTF-8 encoding of one code point
Utf8Bytes(cp) ==
  IF cp < 128 THEN <<cp>>
  ELSE IF cp < 2048 THEN <<192 + (cp \div 64), 128 + (cp % 64)>>
  ELSE IF cp < 65536
       THEN <<224 + (cp \div 4096), 128 + ((cp \div 64) % 64), 128 + (cp % 64)>>
       ELSE <<240 + (cp \div 262144), 128 + ((cp \div 4096) % 64),
              128 + ((cp \div 64) % 64), 128 + (cp % 64)>>

\* Buffer.from(memo, 'utf8') for the units lo..hi, one after the other: a
\* surrogate pair is one code point, an unpaired surrogate is encoded as U+FFFD
RECURSIVE Utf8Run(_, _, _)
Utf8Run(m, lo, hi) ==
  IF lo > hi THEN <<>>
  ELSE IF IsHigh(m[lo]) /\ lo < hi /\ IsLow(m[lo + 1])
       THEN Utf8Bytes(65536 + (m[lo] - 55296) * 1024 + (m[lo + 1] - 56320))
              \o Utf8Run(m, lo + 2, hi)
       ELSE IF IsHigh(m[lo]) \/ IsLow(m[lo])
            THEN <<239, 191, 189>> \o Utf8Run(m, lo + 1, hi)
            ELSE Utf8Bytes(m[lo]) \o Utf8Run(m, lo + 1, hi)

\* Buffer.from(memo, 'utf8') for the units lo..hi: a long string is encoded in two
\* halves, cut where no surrogate pair is split
RECURSIVE BufferFromUtf8(_, _, _)
BufferFromUtf8(m, lo, hi) ==
  IF hi - lo < 8 THEN Utf8Run(m, lo, hi)
  ELSE LET mid == (lo + hi) \div 2
           cut == IF IsHigh(m[mid]) /\ IsLow(m[mid + 1]) THEN mid + 1 ELSE mid
       IN BufferFromUtf8(m, lo, cut) \o BufferFromUtf8(m, cut + 1, hi)

HexDigits == <<"0", "1", "2", "3", "4", "5", "6", "7", "8", "9",
               "a", "b", "c", "d", "e", "f">>

\* buffer.toString('hex')
BufferToHex(b) ==
  [i \in 1..(2 * Len(b)) |->
     HexDigits[(IF i % 2 = 1 THEN (b[(i + 1) \div 2]) \div 16 ELSE (b[i \div 2]) % 16) + 1]]

HexVal(d) == CHOOSE k \in 0..15 : HexDigits[k + 1] = d

\* Buffer.from(memoHex, 'hex') of a string of hex digits (an odd last digit is dropped)
BufferFromHex(h) ==
  [i \in 1..(Len(h) \div 2) |-> 16 * HexVal(h[2 * i - 1]) + HexVal(h[2 * i])]

IsCont(b, i, hi) == i <= hi /\ b[i] \in 128..191

\* buffer.toString('utf8') for the bytes lo..hi, one sequence after the other; a
\* byte that starts no complete sequence decodes to U+FFFD; code points above
\* U+FFFF come out as a surrogate pair
RECURSIVE Utf16Run(_, _, _)
Utf16Run(b, lo, hi) ==
  IF lo > hi THEN <<>>
  ELSE IF b[lo] < 128 THEN <<b[lo]>> \o Utf16Run(b, lo + 1, hi)
  ELSE IF b[lo] \in 194..223 /\ IsCont(b, lo + 1, hi)
       THEN <<(b[lo] - 192) * 64 + (b[lo + 1] - 128)>> \o Utf16Run(b, lo + 2, hi)
  ELSE IF b[lo] \in 224..239 /\ IsCont(b, lo + 1, hi) /\ IsCont(b, lo + 2, hi)
       THEN <<(b[lo] - 224) * 4096 + (b[lo + 1] - 128) * 64 + (b[lo + 2] - 128)>>
              \o Utf16Run(b, lo + 3, hi)
  ELSE IF /\ b[lo] \in 240..244 /\ IsCont(b, lo + 1, hi) /\ IsCont(b, lo + 2, hi)
          /\ IsCont(b, lo + 3, hi)
       THEN LET cp == (b[lo] - 240) * 262144 + (b[lo + 1] - 128) * 4096
                        + (b[lo + 2] - 128) * 64 + (b[lo + 3] - 128)
            IN <<55296 + ((cp - 65536) \div 1024), 56320 + ((cp - 65536) % 1024)>>
                 \o Utf16Run(b, lo + 4, hi)
  ELSE <<65533>> \o Utf16Run(b, lo + 1, hi)

\* buffer.toString('utf8') for the bytes lo..hi: a long buffer is decoded in two
\* halves, cut before a byte that is not a continuation byte
RECURSIVE BufferToUtf8String(_, _, _)
BufferToUtf8String(b, lo, hi) ==
  LET mid == (lo + hi) \div 2
      cuts == {j \in mid..(hi - 1) : b[j + 1] \notin 128..191}
      cut == CHOOSE j \in cuts : \A k \in cuts : j <= k
  IN IF hi - lo < 8 \/ cuts = {} THEN Utf16Run(b, lo, hi)
     ELSE BufferToUtf8String(b, lo, cut) \o BufferToUtf8String(b, cut + 1, hi)

\* decodeMemo that keeps the NUL bytes
decodeMemoKeepsNul(memoHex) ==
  IF memoHex = <<>> THEN <<>>
  ELSE BufferToUtf8String(BufferFromHex(memoHex), 1, Len(memoHex) \div 2)

\* ZcashRpcClient.decodeMemo: '' for an empty argument, else
\* Buffer.from(memoHex, 'hex').toString('utf8').replace(/\0/g, '')
decodeMemo(memoHex) ==
  IF memoHex = <<>> THEN <<>>
  ELSE SelectSeq(BufferToUtf8String(BufferFromHex(memoHex), 1, Len(memoHex) \div 2), LAMBDA u : u # 0)

\* encodeMemo rejecting a memo of exactly the limit
encodeMemoStrict(m) ==
  IF m = <<>> THEN [ok |-> TRUE, hex |-> <<>>]
  ELSE IF Len(BufferFromUtf8(m, 1, Len(m))) >= MemoLimit THEN [ok |-> FALSE, hex |-> <<>>]
       ELSE [ok |-> TRUE, hex |-> BufferToHex(BufferFromUtf8(m, 1, Len(m)))]

\* ZcashRpcClient.encodeMemo: '' for an empty memo; throws (ok = FALSE) when the
\* buffer is longer than 512 bytes; else buffer.toString('hex')
encodeMemo(m) ==
  IF m = <<>> THEN [ok |-> TRUE, hex |-> <<>>]
  ELSE IF Len(BufferFromUtf8(m, 1, Len(m))) > MemoLimit THEN [ok |-> FALSE, hex |-> <<>>]
       ELSE [ok |-> TRUE, hex |-> BufferToHex(BufferFromUtf8(m, 1, Len(m)))]

\* the memo field as z_listreceivedbyaddress returns it: padded with NUL bytes to
\* the full 512 bytes
PadMemo(h) == h \o [i \in 1..(2 * MemoLimit - Len(h)) |-> "0"]

\* no memo handled yet.  input: the memo given to encodeMemo; hex: the hex string
\* in hand; padded: the node padded it; out: what decodeMemo returned
NoMemo == [pc |-> "idle", input |-> <<>>, hex |-> <<>>, padded |-> FALSE, out |-> <<>>]

\* ------------------------------------------------------------ ZmqSubscriber
\* config.reconnectInterval || 5000 and config.maxReconnectAttempts || 10
DefaultReconnectInterval == 5000
DefaultMaxReconnectAttempts == 10

\* the largest maxReconnectAttempts a subscriber is constructed with (0: not
\* configured), the most handlers registered for a topic, the messages that
\* arrive, and the sockets created
MaxConfigAttempts == 2
MaxHandlers == 2
MaxMessages == 2
MaxSockets == 2

ZmqTopics == {"hashblock", "rawtx"}

\* one startListening() loop over one socket.  pc: none (socket not created),
\* next (awaiting the socket's next message), handler (awaiting handler h of
\* message cur), ended; queue: the messages the socket holds
NoLoop == [pc |-> "none", queue |-> <<>>, cur |-> 0, topic |-> "hashblock", h |-> 0]

\* the subscriber before its constructor ran.  socket: this.socket (0: null or
\* not receiving); created: sockets created so far; arrived: messages published
\* so far; reconnectTimer: delay of the pending timer (0: none); log: handler
\* invocations begun and completed; delays: the reconnects scheduled since the
\* last successful connect
NoSubscriber ==
  [constructed |-> FALSE, cfgMaxReconnectAttempts |-> 0, maxReconnectAttempts |-> 0,
   reconnectInterval |-> 0, handlers |-> [t \in ZmqTopics |-> 0],
   isConnected |-> FALSE, isShuttingDown |-> FALSE, reconnectAttempts |-> 0,
   reconnectTimer |-> 0, socket |-> 0, created |-> 0, arrived |-> 0,
   sockets |-> [k \in 1..MaxSockets |-> NoLoop], log |-> <<>>, delays |-> <<>>]

\* the constructor
zmq_construct(m) ==
  [NoSubscriber EXCEPT !.constructed = TRUE, !.cfgMaxReconnectAttempts = m,
                       !.maxReconnectAttempts = IF m = 0 THEN DefaultMaxReconnectAttempts ELSE m,
                       !.reconnectInterval = DefaultReconnectInterval]

\* on(topic, handler)
zmq_on(c, topic) == [c EXCEPT !.handlers[topic] = @ + 1]

\* scheduleReconnect testing > instead of >=
scheduleReconnectOneMore(c) ==
  IF c.isShuttingDown THEN c
  ELSE IF c.reconnectAttempts > c.maxReconnectAttempts THEN c
  ELSE [c EXCEPT !.reconnectAttempts = @ + 1,
                 !.reconnectTimer = c.reconnectInterval * Pow2(c.reconnectAttempts),
                 !.delays = Append(@, c.reconnectInterval * Pow2(c.reconnectAttempts))]

\* ZmqSubscriber.scheduleReconnect: reconnectAttempts++; delay = reconnectInterval
\* * Math.pow(2, reconnectAttempts - 1); setTimeout(connect, delay)
scheduleReconnect(c) ==
  IF c.isShuttingDown THEN c
  ELSE IF c.reconnectAttempts >= c.maxReconnectAttempts THEN c
  ELSE [c EXCEPT !.reconnectAttempts = @ + 1,
                 !.reconnectTimer = c.reconnectInterval * Pow2(c.reconnectAttempts),
                 !.delays = Append(@, c.reconnectInterval * Pow2(c.reconnectAttempts))]

\* ZmqSubscriber.connect: a new socket, isConnected = true, reconnectAttempts = 0
\* and startListening() up to its first await; or, when connecting throws,
\* scheduleReconnect() (the socket then receives nothing)
zmq_connect(c, ok) ==
  IF c.isConnected THEN c
  ELSE IF ok
       THEN [c EXCEPT !.socket = c.created + 1, !.created = @ + 1, !.isConnected = TRUE,
                      !.reconnectAttempts = 0, !.delays = <<>>,
                      !.sockets[c.created + 1] = [NoLoop EXCEPT !.pc = "next"]]
       ELSE scheduleReconnect([c EXCEPT !.socket = 0])

\* startListening taking the newest message first
listen_nextNewestFirst(c, k) ==
  LET q == c.sockets[k].queue
      msg == q[Len(q)]
  IN IF c.isShuttingDown THEN [c EXCEPT !.sockets[k].pc = "ended"]
     ELSE IF c.handlers[msg.topic] = 0
          THEN [c EXCEPT !.sockets[k].queue = SubSeq(q, 1, Len(q) - 1)]
          ELSE [c EXCEPT !.sockets[k] = [pc |-> "handler", queue |-> SubSeq(q, 1, Len(q) - 1),
                                         cur |-> msg.id, topic |-> msg.topic, h |-> 1],
                         !.log = Append(@, <<"start", msg.id, 1>>)]

\* startListening: the socket yields its next message; break when shutting
\* down; nothing to call when the topic has no handler; else await the first
\* handler
listen_next(c, k) ==
  LET q == c.sockets[k].queue
      msg == Head(q)
  IN IF c.isShuttingDown THEN [c EXCEPT !.sockets[k].pc = "ended"]
     ELSE IF c.handlers[msg.topic] = 0 THEN [c EXCEPT !.sockets[k].queue = Tail(q)]
          ELSE [c EXCEPT !.sockets[k] = [pc |-> "handler", queue |-> Tail(q),
                                         cur |-> msg.id, topic |-> msg.topic, h |-> 1],
                         !.log = Append(@, <<"start", msg.id, 1>>)]

\* startListening without the try / catch around the handler: a throwing handler
\* ends the loop through the outer catch
listen_handlerDoneUncaught(c, k, throws) ==
  LET l == c.sockets[k]
      done == [c EXCEPT !.log = Append(@, <<IF throws THEN "throw" ELSE "end", l.cur, l.h>>)]
  IN IF throws
     THEN scheduleReconnect([done EXCEPT !.sockets[k].pc = "ended", !.isConnected = FALSE])
     ELSE IF l.h < c.handlers[l.topic]
          THEN [done EXCEPT !.sockets[k].h = @ + 1,
                            !.log = Append(@, <<"start", l.cur, l.h + 1>>)]
          ELSE [done EXCEPT !.sockets[k].pc = IF c.socket = k THEN "next" ELSE "ended"]

\* startListening: the awaited handler returns or throws (the throw is caught and
\* logged); then the next handler of the message, or back to the socket, whose
\* iteration ends when the socket was closed meanwhile
listen_handlerDone(c, k, throws) ==
  LET l == c.sockets[k]
      done == [c EXCEPT !.log = Append(@, <<IF throws THEN "throw" ELSE "end", l.cur, l.h>>)]
  IN IF l.h < c.handlers[l.topic]
     THEN [done EXCEPT !.sockets[k].h = @ + 1,
                       !.log = Append(@, <<"start", l.cur, l.h + 1>>)]
     ELSE [done EXCEPT !.sockets[k].pc = IF c.socket = k THEN "next" ELSE "ended"]

\* startListening: the socket iteration throws; isConnected = false and
\* scheduleReconnect() unless shutting down
listen_error(c, k) ==
  IF c.isShuttingDown THEN [c EXCEPT !.sockets[k].pc = "ended", !.sockets[k].queue = <<>>]
  ELSE scheduleReconnect([c EXCEPT !.sockets[k].pc = "ended", !.sockets[k].queue = <<>>,
                                   !.isConnected = FALSE, !.socket = 0])

\* ZmqSubscriber.disconnect: isShuttingDown, the timer cleared, the socket closed
\* (a loop waiting on it ends; what it held is dropped)
zmq_disconnect(c) ==
  [c EXCEPT !.isShuttingDown = TRUE, !.isConnected = FALSE, !.reconnectTimer = 0,
            !.socket = 0,
            !.sockets = [k \in 1..MaxSockets |->
                           IF k # c.socket THEN @[k]
                           ELSE [@[k] EXCEPT !.queue = <<>>,
                                             !.pc = IF @ = "next" THEN "ended" ELSE @]]]

\* ------------------------------------- ZcashMonitor with shielded payments
\* payments of two chains; addresses are <<first character, rest>>
ZPay == {"p1", "p2", "p3"}
ZPayOrder == <<"p1", "p2", "p3">>
ZPayCur == [p1 |-> "ZEC", p2 |-> "ZEC", p3 |-> "BTC"]
ZPayAddr == [p1 |-> <<"t", "1a">>, p2 |-> <<"z", "s1">>, p3 |-> <<"b", "c1">>]
\* payment.crypto_amount, in zatoshi-like units
crypto_amount == [p1 |-> 2, p2 |-> 2, p3 |-> 2]
\* the block height at which the payment's address was issued
ZBirthday == [p1 |-> 0, p2 |-> 0, p3 |-> 0]
\* the chain tip when the monitor initializes
ZTip == 1
\* one transaction paying each Zcash payment's address
ZTx == {"x1", "x2"}
ZTxPay == [x1 |-> "p1", x2 |-> "p2"]
ChangeAddr == <<"t", "9c">>

\* the largest amount sent, the status changes made outside the monitor, and
\* the refreshes of the address cache
MaxAmount == 3
MaxStatusChanges == 2
MaxRefreshes == 2
RefreshSlots == {1, 2}

\* a refreshAddressCache() / initialize() in flight.  pc: idle, findByStatus
\* (awaiting the query), z_importViewingKey (awaiting the import of cur);
\* todo: the entries of the shielded map still to visit; again: initialize()
\* calls ensureViewKeysImported() once more after the refresh
NoRefresh == [pc |-> "idle", todo |-> <<>>, cur |-> <<>>, startHeight |-> 0,
              again |-> FALSE]

\* the monitor after its constructor.  chain[t]: the amount transaction t pays
\* (0: not sent); nodeKeys: the shielded addresses zcashd holds a viewing key of;
\* imports: the z_importViewingKey calls made; snapshot: the payment statuses
\* read by the refresh that last assigned the caches; records: the
\* blockchain_transactions rows; failed: the refreshes whose query threw
NewZcashMonitor ==
  [initialized |-> FALSE, status |-> [p \in ZPay |-> "pending"],
   transparentAddressCache |-> {}, shieldedAddressCache |-> <<>>,
   viewKeysImported |-> {}, lastScannedBlockHeight |-> 0,
   refresh |-> [k \in RefreshSlots |-> NoRefresh], refreshes |-> 0,
   snapshot |-> [p \in ZPay |-> "none"], imports |-> <<>>, nodeKeys |-> {},
   chain |-> [t \in ZTx |-> 0], records |-> {}, changes |-> 0,
   failed |-> [k \in RefreshSlots |-> 0]]

\* paymentRepository.findByStatus(['pending', 'detected']), in row order
zm_findByStatus(c) ==
  SelectSeq(ZPayOrder, LAMBDA p : c.status[p] \in {"pending", "detected"})

\* refreshAddressCache building the new caches without the currency filter
newCachesAllChains(rows) ==
  LET zec == rows
  IN [transparent |-> {ZPayAddr[zec[i]] : i \in {j \in 1..Len(zec) : ZPayAddr[zec[j]][1] # "z"}},
      shielded |-> [i \in 1..Len(SelectSeq(zec, LAMBDA p : ZPayAddr[p][1] = "z")) |->
                      [address |-> ZPayAddr[SelectSeq(zec, LAMBDA p : ZPayAddr[p][1] = "z")[i]],
                       viewKey |-> "",
                       paymentId |-> SelectSeq(zec, LAMBDA p : ZPayAddr[p][1] = "z")[i]]]]

\* refreshAddressCache: the ZEC payments of the query; addresses starting with
\* 'z' go to the new shielded map (viewKey: ''), the others to the new
\* transparent set
newCaches(rows) ==
  LET zec == SelectSeq(rows, LAMBDA p : ZPayCur[p] = "ZEC")
  IN [transparent |-> {ZPayAddr[zec[i]] : i \in {j \in 1..Len(zec) : ZPayAddr[zec[j]][1] # "z"}},
      shielded |-> [i \in 1..Len(SelectSeq(zec, LAMBDA p : ZPayAddr[p][1] = "z")) |->
                      [address |-> ZPayAddr[SelectSeq(zec, LAMBDA p : ZPayAddr[p][1] = "z")[i]],
                       viewKey |-> "",
                       paymentId |-> SelectSeq(zec, LAMBDA p : ZPayAddr[p][1] = "z")[i]]]]

\* ensureViewKeysImported over the entries left: skip an address already
\* imported, skip one without view key, else call z_importViewingKey(viewKey,
\* 'no', this.lastScannedBlockHeight) and await it.  At the end of the loop
\* initialize() runs the loop once more, a refresh is complete
RECURSIVE ensureViewKeysImported(_, _, _)
ensureViewKeysImported(c, k, entries) ==
  IF entries = <<>>
  THEN IF c.refresh[k].again
       THEN ensureViewKeysImported([c EXCEPT !.refresh[k].again = FALSE], k,
                                   c.shieldedAddressCache)
       ELSE [c EXCEPT !.refresh[k] = NoRefresh, !.initialized = TRUE]
  ELSE IF Head(entries).address \in c.viewKeysImported \/ Head(entries).viewKey = ""
       THEN ensureViewKeysImported(c, k, Tail(entries))
       ELSE [c EXCEPT !.refresh[k].pc = "z_importViewingKey",
                      !.refresh[k].cur = Head(entries),
                      !.refresh[k].todo = Tail(entries),
                      !.refresh[k].startHeight = c.lastScannedBlockHeight]

\* initialize(): the cursor is the tip, then refreshAddressCache()
zm_initialize(c) ==
  [c EXCEPT !.lastScannedBlockHeight = ZTip,
            !.refresh[1] = [NoRefresh EXCEPT !.pc = "findByStatus", !.again = TRUE]]

\* a refresh that has emptied the caches before its query threw
refresh_stepClearsOnFailure(c, k, ok) ==
  LET r == c.refresh[k]
  IN IF r.pc = "findByStatus"
     THEN IF ~ok THEN ensureViewKeysImported([c EXCEPT !.failed[k] = @ + 1,
                                                     !.transparentAddressCache = {},
                                                     !.shieldedAddressCache = <<>>], k, <<>>)
          ELSE LET new == newCaches(zm_findByStatus(c))
                   c1 == [c EXCEPT !.transparentAddressCache = new.transparent,
                                   !.shieldedAddressCache = new.shielded,
                                   !.snapshot = c.status]
               IN ensureViewKeysImported(c1, k, new.shielded)
     ELSE LET c1 == [c EXCEPT !.imports = Append(@, [address |-> r.cur.address,
                                                     startHeight |-> r.startHeight,
                                                     ok |-> ok]),
                              !.viewKeysImported = IF ok THEN @ \cup {r.cur.address} ELSE @,
                              !.nodeKeys = IF ok THEN @ \cup {r.cur.address} ELSE @]
          IN ensureViewKeysImported(c1, k, r.todo)

\* the awaited call of a refresh in flight returns (ok) or throws.
\* findByStatus: on a throw the caches stay; else both caches are replaced
\* together and the shielded map is walked.  z_importViewingKey: the address
\* joins viewKeysImported only when the call succeeded; the walk goes on
refresh_step(c, k, ok) ==
  LET r == c.refresh[k]
  IN IF r.pc = "findByStatus"
     THEN IF ~ok THEN ensureViewKeysImported([c EXCEPT !.failed[k] = @ + 1], k, <<>>)
          ELSE LET new == newCaches(zm_findByStatus(c))
                   c1 == [c EXCEPT !.transparentAddressCache = new.transparent,
                                   !.shieldedAddressCache = new.shielded,
                                   !.snapshot = c.status]
               IN ensureViewKeysImported(c1, k, new.shielded)
     ELSE LET c1 == [c EXCEPT !.imports = Append(@, [address |-> r.cur.address,
                                                     startHeight |-> r.startHeight,
                                                     ok |-> ok]),
                              !.viewKeysImported = IF ok THEN @ \cup {r.cur.address} ELSE @,
                              !.nodeKeys = IF ok THEN @ \cup {r.cur.address} ELSE @]
          IN ensureViewKeysImported(c1, k, r.todo)

\* the outputs of a transaction as getRawTransaction returns them
ZVout(c, t) ==
  IF ZPayAddr[ZTxPay[t]][1] = "z" THEN <<>>
  ELSE <<[address |-> ChangeAddr, value |-> 7],
         [address |-> ZPayAddr[ZTxPay[t]], value |-> c.chain[t]]>>

\* tx.vout.find(vout => vout.scriptPubKey.addresses?.includes(address))
matchedOutput(vout, a) == SelectSeq(vout, LAMBDA o : o.address = a)

\* processZcashTransaction: nothing when the txid is stored; the amount is the
\* matched output's value (transparent; '0' without a match) or the payment's
\* crypto_amount (shielded); the record is created and the payment marked
\* detected
processZcashTransaction(c, t, p, isShielded) ==
  IF \E r \in c.records : r.txid = t THEN c
  ELSE LET m == matchedOutput(ZVout(c, t), ZPayAddr[p])
           amount == IF ~isShielded THEN (IF m # <<>> THEN m[1].value ELSE 0)
                     ELSE crypto_amount[p]
       IN [c EXCEPT !.records = @ \cup {[txid |-> t, payment_id |-> p, amount |-> amount,
                                         is_shielded |-> isShielded]},
                    !.status[p] = "detected"]

\* scanTransparentAddresses for one utxo of listUnspent
scanTransparent_utxo(c, t) ==
  IF \E r \in c.records : r.txid = t THEN c
  ELSE IF ZPayCur[ZTxPay[t]] # "ZEC" THEN c
       ELSE processZcashTransaction(c, t, ZTxPay[t], FALSE)

\* scanShieldedAddresses for one entry of z_listReceivedByAddress(address, 0),
\* which throws for an address the node holds no key of
scanShielded_entry(c, e, t) ==
  IF e.address \notin c.nodeKeys THEN c
  ELSE IF \E r \in c.records : r.txid = t THEN c
       ELSE processZcashTransaction(c, t, e.paymentId, TRUE)

\* ------------------------------------------ initialize(), start(), stop()
\* the calls of start() that may be in flight together, the calls of start()
\* and stop() made, the handlers in flight together, the repository writes
StartCalls == {1, 2}
MaxCalls == 3
MaxInflight == 2
MaxWrites == 2

\* a monitor before its constructor.  initPc: where initialize() is; init: none,
\* ok (resolved), rejected; rpcFailed / queryFailed: the node could not be
\* reached / the payment query threw during initialize(); subscriber: the
\* ZmqSubscriber exists; pollHandle, refreshHandle: the interval fields are set;
\* pollTimers, refreshTimers: the intervals that exist; starts: where each
\* start() call is; stop: where the stop() call is; stopped: stop() has returned
\* and no start() has run since; inflight: handlers running; writes: repository
\* writes made
NewMonitor ==
  [constructed |-> FALSE, chain |-> "BTC", initPc |-> "idle", init |-> "none",
   rpcFailed |-> FALSE, queryFailed |-> FALSE, cacheLoaded |-> FALSE,
   subscriber |-> FALSE, zmqConnected |-> FALSE, isRunning |-> FALSE,
   pollHandle |-> FALSE, refreshHandle |-> FALSE, pollTimers |-> 0, refreshTimers |-> 0,
   starts |-> [k \in StartCalls |-> "idle"], stop |-> "idle", stopped |-> FALSE,
   calls |-> 0, inflight |-> 0, writes |-> 0]

\* initialize() going on after testConnection() returned false
init_stepIgnoresNode(c, ok) ==
  IF c.initPc = "testConnection"
  THEN [c EXCEPT !.initPc = "getBlockchainInfo", !.rpcFailed = ~ok]
  ELSE IF c.initPc = "getBlockchainInfo"
  THEN IF ok THEN [c EXCEPT !.initPc = "refreshAddressCache",
                            !.subscriber = (c.chain = "BTC")]
       ELSE [c EXCEPT !.rpcFailed = TRUE, !.init = "rejected", !.initPc = "idle"]
  ELSE [c EXCEPT !.cacheLoaded = ok, !.queryFailed = ~ok, !.init = "ok", !.initPc = "idle"]

\* initialize(): the awaited call returns (ok) or fails.  testConnection false
\* or getBlockchainInfo throwing rejects; then the Bitcoin monitor creates its
\* subscriber; refreshAddressCache() catches a failing query itself, so
\* initialize() resolves either way
init_step(c, ok) ==
  IF c.initPc = "testConnection"
  THEN IF ok THEN [c EXCEPT !.initPc = "getBlockchainInfo"]
       ELSE [c EXCEPT !.rpcFailed = TRUE, !.init = "rejected", !.initPc = "idle"]
  ELSE IF c.initPc = "getBlockchainInfo"
  THEN IF ok THEN [c EXCEPT !.initPc = "refreshAddressCache",
                            !.subscriber = (c.chain = "BTC")]
       ELSE [c EXCEPT !.rpcFailed = TRUE, !.init = "rejected", !.initPc = "idle"]
  ELSE [c EXCEPT !.cacheLoaded = ok, !.queryFailed = ~ok, !.init = "ok", !.initPc = "idle"]

\* the two setInterval calls and isRunning = true
setIntervals(c) ==
  [c EXCEPT !.pollTimers = @ + 1, !.pollHandle = TRUE,
            !.refreshTimers = @ + 1, !.refreshHandle = TRUE,
            !.isRunning = TRUE, !.stopped = FALSE]

\* start() up to its first await: nothing when isRunning; the Bitcoin monitor
\* awaits zmqSubscriber.connect(); the Zcash monitor sets its intervals and
\* isRunning and awaits its initial pollBlockchain()
start_begin(c, k) ==
  IF c.isRunning THEN c
  ELSE IF c.chain = "BTC" THEN [c EXCEPT !.starts[k] = "connect"]
       ELSE [setIntervals(c) EXCEPT !.inflight = @ + 1]

\* BitcoinMonitor.start() after connect(): a throw rejects start(); else the
\* intervals are set and isRunning = true
start_resume(c, k, ok) ==
  IF ~ok THEN [c EXCEPT !.starts[k] = "idle"]
  ELSE [setIntervals(c) EXCEPT !.starts[k] = "idle", !.zmqConnected = TRUE]

\* stop() up to its first await: nothing when not running; isRunning = false,
\* clearInterval of the two interval fields; the Bitcoin monitor awaits
\* zmqSubscriber.disconnect(), the Zcash monitor returns
stop_begin(c) ==
  IF ~c.isRunning THEN c
  ELSE LET c1 == [c EXCEPT !.isRunning = FALSE,
                           !.pollTimers = IF c.pollHandle THEN @ - 1 ELSE @,
                           !.pollHandle = FALSE,
                           !.refreshTimers = IF c.refreshHandle THEN @ - 1 ELSE @,
                           !.refreshHandle = FALSE]
       IN IF c.chain = "BTC" /\ c.subscriber
          THEN [c1 EXCEPT !.zmqConnected = FALSE, !.stop = "disconnect"]
          ELSE [c1 EXCEPT !.stopped = TRUE]

\* ------------------------------- onNewTransaction, several outputs per tx
\* two Bitcoin payments, their addresses and an address of nobody
MoPay == {"pa", "pb2"}
MoAddr == [pa |-> "bc1qa", pb2 |-> "bc1qb"]
MoAddresses == {"bc1qa", "bc1qb", "bc1qx"}
MoTx == {"m1", "m2"}
\* the most outputs of a transaction
MaxVout == 2

\* the handler before a message.  pc: idle, vout (in the loop over tx.vout, at
\* output i), done; seen: the transactions delivered; records: the
\* blockchain_transactions rows; detected: the payments marked detected
NoRawTx ==
  [pc |-> "idle", txid |-> "m1", vout |-> <<>>, i |-> 0, seen |-> {},
   addressCache |-> {}, status |-> [p \in MoPay |-> "pending"], records |-> {}]

\* matchTransactionToPayment: the output addresses in order of first
\* appearance; the first one in the cache whose payment is pending
mo_matchTransactionToPayment(c) ==
  LET hit(k) == /\ c.vout[k] \in c.addressCache
                /\ \A j \in 1..(k - 1) : c.vout[j] # c.vout[k]
                /\ \E p \in MoPay : MoAddr[p] = c.vout[k] /\ c.status[p] = "pending"
      hits == {k \in 1..Len(c.vout) : hit(k)}
  IN IF hits = {} THEN "null"
     ELSE LET k == CHOOSE x \in hits : \A y \in hits : x <= y
          IN CHOOSE p \in MoPay : MoAddr[p] = c.vout[k]

\* processTransaction: no payment matches; or findByTxid(tx.txid) finds a
\* record; else the record for the payment's address is created and the
\* payment marked detected
mo_processTransaction(c) ==
  LET payment == mo_matchTransactionToPayment(c)
  IN IF payment = "null" THEN c
     ELSE IF \E r \in c.records : r.txid = c.txid THEN c
     ELSE [c EXCEPT !.records = @ \cup {[txid |-> c.txid, to_address |-> MoAddr[payment],
                                        payment_id |-> payment]},
                    !.status[payment] = "detected"]

\* onNewTransaction: one pass of the loop over decodedTx.vout
mo_onNewTransaction(c) ==
  LET c1 == IF c.vout[c.i] \in c.addressCache THEN mo_processTransaction(c) ELSE c
  IN IF c.i < Len(c.vout) THEN [c1 EXCEPT !.i = @ + 1] ELSE [c1 EXCEPT !.pc = "done"]

\* ------------------------------------------------------------------- Init
Init ==
  /\ worker \in Chains
  /\ isRunning = FALSE
  /\ payments = [p \in Pay |-> [status |-> "pending", txid |-> NoTx, confirmations |-> 0,
                                detected_at |-> 0, confirmed_at |-> 0]]
  /\ blockchain_transactions = <<>>
  /\ webhook_events = [k \in EvKey |-> 0]
  /\ tip = 0
  /\ chainTx = [t \in Tx |-> -1]
  /\ addressCache = {}
  /\ lastScannedBlockHeight = 0
  /\ zmq = <<>>
  /\ isConnected = FALSE
  /\ startHeight = 0
  /\ task = [k \in Task |-> Idle]
  /\ invocations = 0
  /\ failures = 0
  /\ transitions = [p \in Pay |-> 0]
  /\ everConfirmed = {}
  /\ expiryPassed = [p \in Pay |-> FALSE]
  /\ envSteps = 0
  /\ rpc = NoClient
  /\ conf = NoCall
  /\ memo = NoMemo
  /\ sub = NoSubscriber
  /\ zm = NewZcashMonitor
  /\ mon = NewMonitor
  /\ mo = NoRawTx

\* ------------------------------------------------- the chain and the others
Publish(q, msgs) == SubSeq(q \o msgs, 1, IF Len(q \o msgs) > MaxQueue THEN MaxQueue ELSE Len(q \o msgs))

\* a wallet broadcasts a transaction paying a payment address; bitcoind publishes rawtx
Broadcast(t) ==
  /\ envSteps < MaxEnv /\ envSteps' = envSteps + 1
  /\ TxCur[t] = worker
  /\ chainTx[t] = -1
  /\ \A i, j \in 1..Len(TxOrder) :
        (i < j /\ TxOrder[j] = t /\ TxCur[TxOrder[i]] = worker) => chainTx[TxOrder[i]] # -1
  /\ Cardinality({u \in Tx : chainTx[u] # -1}) < MaxTx
  /\ chainTx' = [chainTx EXCEPT ![t] = 0]
  /\ zmq' = IF worker = "BTC" /\ isRunning /\ isConnected
            THEN Publish(zmq, <<[topic |-> "rawtx", txid |-> t]>>) ELSE zmq
  /\ UNCHANGED <<clientvars, worker, expiryPassed, isRunning, dbvars, tip, addressCache, lastScannedBlockHeight,
                 isConnected, startHeight, task, invocations, failures, transitions,
                 everConfirmed>>

\* a block is mined with the mempool S; bitcoind publishes hashblock, and rawtx
\* again for the transactions of the block
NewBlock(S) ==
  /\ envSteps < MaxEnv /\ envSteps' = envSteps + 1
  /\ tip < MaxBlocks
  /\ S = {t \in Tx : chainTx[t] = 0}
  /\ tip' = tip + 1
  /\ chainTx' = [t \in Tx |-> IF t \in S THEN tip + 1 ELSE chainTx[t]]
  /\ zmq' = IF worker = "BTC" /\ isRunning /\ isConnected
            THEN Publish(zmq, <<[topic |-> "hashblock", txid |-> NoTx]>> \o
                              [i \in 1..Len(SelectTx(S, 1)) |->
                                 [topic |-> "rawtx", txid |-> SelectTx(S, 1)[i]]])
            ELSE zmq
  /\ UNCHANGED <<clientvars, worker, expiryPassed, isRunning, dbvars, addressCache, lastScannedBlockHeight,
                 isConnected, startHeight, task, invocations, failures, transitions,
                 everConfirmed>>

\* findExpired without its status filter: every payment past expires_at is expired
ExpireAnyStatus(p) ==
  /\ envSteps < MaxEnv
  /\ envSteps' = IF payments[p].status = "pending" THEN envSteps + 1 ELSE envSteps
  /\ PayCur[p] = worker
  /\ ~expiryPassed[p]
  /\ expiryPassed' = [expiryPassed EXCEPT ![p] = TRUE]
  /\ payments' = [payments EXCEPT ![p].status = "expired"]
  /\ UNCHANGED <<clientvars, worker, isRunning, blockchain_transactions, webhook_events, tip, chainTx,
                 addressCache, lastScannedBlockHeight, zmq, isConnected, startHeight, task,
                 invocations, failures, transitions, everConfirmed>>

\* expires_at passes and the payment service's expiry pass runs: findExpired
\* selects the payment only if it is still pending (status = 'pending' AND
\* expires_at < NOW()), and what it selects is set to expired
Expire(p) ==
  /\ envSteps < MaxEnv
  /\ envSteps' = IF payments[p].status = "pending" THEN envSteps + 1 ELSE envSteps
  /\ PayCur[p] = worker
  /\ ~expiryPassed[p]
  /\ expiryPassed' = [expiryPassed EXCEPT ![p] = TRUE]
  /\ payments' = IF payments[p].status = "pending"
                 THEN [payments EXCEPT ![p].status = "expired"] ELSE payments
  /\ UNCHANGED <<clientvars, worker, isRunning, blockchain_transactions, webhook_events, tip, chainTx,
                 addressCache, lastScannedBlockHeight, zmq, isConnected, startHeight, task,
                 invocations, failures, transitions, everConfirmed>>

\* ------------------------------------------------------- monitor lifecycle
\* initialize() followed by start(): the cursor is set to the tip, the cache is
\* loaded, the timers are set; the Bitcoin monitor connects its subscriber, the
\* Zcash monitor makes its initial poll (which runs up to its first await)
StartMonitor ==
  /\ UNCHANGED envSteps
  /\ ~isRunning
  /\ isRunning' = TRUE
  /\ startHeight' = tip
  /\ lastScannedBlockHeight' = IF worker = "ZEC" THEN tip ELSE lastScannedBlockHeight
  /\ addressCache' = findByStatus(DB, worker)
  /\ isConnected' = (worker = "BTC")
  /\ task' = IF worker = "ZEC"
             THEN [task EXCEPT ![1] = [Idle EXCEPT !.pc = "z_getBlockCount", !.kind = "zpoll"]]
             ELSE task
  /\ invocations' = IF worker = "ZEC" THEN invocations + 1 ELSE invocations
  /\ UNCHANGED <<clientvars, worker, expiryPassed, dbvars, tip, chainTx, zmq, failures, transitions, everConfirmed>>

\* stop(): the timers are cleared and the Bitcoin monitor disconnects its
\* subscriber, whose undelivered messages are lost.  The worker stops between
\* handlers; a later start is a new worker process, whose initialize() assigns
\* the cursor and the cache before anything reads them
StopMonitor ==
  /\ envSteps < MaxEnv /\ envSteps' = envSteps + 1
  /\ isRunning
  /\ \A k \in Task : ~Active(task[k])
  /\ isRunning' = FALSE
  /\ isConnected' = FALSE
  /\ zmq' = <<>>
  /\ UNCHANGED <<clientvars, worker, expiryPassed, dbvars, tip, chainTx, addressCache, lastScannedBlockHeight,
                 startHeight, task, invocations, failures, transitions, everConfirmed>>

\* the addressCacheRefreshInterval timer fires
refreshAddressCache ==
  /\ UNCHANGED envSteps
  /\ isRunning
  /\ addressCache' = findByStatus(DB, worker)
  /\ addressCache' # addressCache
  /\ UNCHANGED <<clientvars, worker, expiryPassed, isRunning, dbvars, tip, chainTx, lastScannedBlockHeight, zmq,
                 isConnected, startHeight, task, invocations, failures, transitions,
                 everConfirmed>>

\* ZmqSubscriber.startListening: the socket iteration throws; the subscriber is
\* disconnected and what the old socket had not delivered is lost
ZmqListeningError ==
  /\ envSteps < MaxEnv /\ envSteps' = envSteps + 1
  /\ worker = "BTC" /\ isRunning /\ isConnected
  /\ ~Active(task[1])
  /\ isConnected' = FALSE
  /\ zmq' = <<>>
  /\ UNCHANGED <<clientvars, worker, expiryPassed, isRunning, dbvars, tip, chainTx, addressCache,
                 lastScannedBlockHeight, startHeight, task, invocations, failures,
                 transitions, everConfirmed>>

\* ZmqSubscriber.scheduleReconnect: the reconnect timer fires and connect() succeeds
ZmqReconnect ==
  /\ worker = "BTC" /\ isRunning /\ ~isConnected
  /\ isConnected' = TRUE
  /\ UNCHANGED <<clientvars, worker, expiryPassed, isRunning, dbvars, tip, chainTx, addressCache,
                 lastScannedBlockHeight, zmq, startHeight, task, invocations, failures,
                 transitions, everConfirmed, envSteps>>

\* ------------------------------------------------------ starting a handler
Begin(k, l) ==
  /\ isRunning
  /\ ~Active(task[k])
  /\ invocations < MaxInvocations
  /\ invocations' = invocations + 1
  /\ task' = [j \in Task |->
               IF j = k THEN [l EXCEPT !.overlapped = \E o \in Task \ {k} : Active(task[o])]
               ELSE IF Active(task[j]) THEN [task[j] EXCEPT !.overlapped = TRUE]
               ELSE task[j]]

\* the polling timer fires
StartPoll(k) ==
  /\ UNCHANGED envSteps
  /\ worker = "ZEC"
  /\ k = 2 <=> Active(task[1])
  /\ Begin(k, [Idle EXCEPT !.pc = "z_getBlockCount", !.kind = "zpoll"])
  /\ UNCHANGED <<clientvars, worker, expiryPassed, isRunning, dbvars, tip, chainTx, addressCache,
                 lastScannedBlockHeight, zmq, isConnected, startHeight, failures,
                 transitions, everConfirmed>>

\* ZmqSubscriber.startListening hands the next message to its handler; it awaits
\* the handler before it takes another message, so task 1 runs them all
DeliverZmq ==
  /\ UNCHANGED envSteps
  /\ worker = "BTC"
  /\ isConnected
  /\ zmq # <<>>
  /\ Begin(1, IF Head(zmq).topic = "rawtx"
              THEN [Idle EXCEPT !.pc = "b_decodeRawTransaction", !.kind = "rawtx",
                                !.cur = Item(Head(zmq).txid)]
              ELSE [Idle EXCEPT !.pc = "s_find", !.kind = "hashblock"])
  /\ zmq' = Tail(zmq)
  /\ UNCHANGED <<clientvars, worker, expiryPassed, isRunning, dbvars, tip, chainTx, addressCache,
                 lastScannedBlockHeight, isConnected, startHeight, failures,
                 transitions, everConfirmed>>

\* the confirmationUpdateInterval timer fires
StartTimerSweep ==
  /\ UNCHANGED envSteps
  /\ worker = "BTC"
  /\ Begin(2, [Idle EXCEPT !.pc = "s_find", !.kind = "timer"])
  /\ UNCHANGED <<clientvars, worker, expiryPassed, isRunning, dbvars, tip, chainTx, addressCache,
                 lastScannedBlockHeight, zmq, isConnected, startHeight, failures,
                 transitions, everConfirmed>>

\* --------------------------------------------------- one step of a handler
Apply(k, r, fail) ==
  /\ UNCHANGED envSteps
  /\ payments' = r.db.payments
  /\ blockchain_transactions' = r.db.blockchain_transactions
  /\ webhook_events' = r.db.webhook_events
  /\ task' = [task EXCEPT ![k] = r.l]
  /\ lastScannedBlockHeight' =
       IF task[k].kind = "zpoll" /\ task[k].pc \in SweepPcs /\ r.l.pc \notin SweepPcs
       THEN task[k].height ELSE lastScannedBlockHeight
  /\ failures' = IF fail THEN failures + 1 ELSE failures
  /\ transitions' = IF r.hist = "detected"
                    THEN [transitions EXCEPT ![task[k].pid] = @ + 1] ELSE transitions
  /\ everConfirmed' = IF r.hist = "confirmed"
                      THEN everConfirmed \cup {task[k].pid} ELSE everConfirmed
  /\ UNCHANGED <<clientvars, worker, expiryPassed, isRunning, tip, chainTx, addressCache, zmq, isConnected,
                 startHeight, invocations>>

MayFail == {FALSE} \cup {f \in {TRUE} : failures < MaxFailures}

GetBlockCount(k) == task[k].pc = "z_getBlockCount" /\ Apply(k, z_getBlockCount(DB, task[k]), FALSE)
ListUnspent(k) == task[k].pc = "z_listUnspent" /\ Apply(k, z_listUnspent(DB, task[k]), FALSE)
ScanFindByTxid(k) == task[k].pc = "z_findByTxid" /\ Apply(k, z_findByTxid(DB, task[k]), FALSE)
ScanFindByCryptoAddress(k) ==
  task[k].pc = "z_findByCryptoAddress" /\ Apply(k, z_findByCryptoAddress(DB, task[k]), FALSE)
ScanGetRawTransaction(k) ==
  task[k].pc = "z_getRawTransaction" /\ Apply(k, z_getRawTransaction(DB, task[k]), FALSE)
DecodeRawTransaction(k) ==
  task[k].pc = "b_decodeRawTransaction" /\ Apply(k, b_decodeRawTransaction(DB, task[k]), FALSE)
GetRawTransaction(k) ==
  task[k].pc = "b_getRawTransaction" /\ Apply(k, b_getRawTransaction(DB, task[k]), FALSE)
MatchTransactionToPayment(k) ==
  /\ task[k].pc = "b_matchTransactionToPayment"
  /\ Apply(k, b_matchTransactionToPayment(DB, task[k]), FALSE)
ProcessFindByTxid(k) == task[k].pc = "d_findByTxid" /\ Apply(k, d_findByTxid(DB, task[k]), FALSE)
CreateTransaction(k) ==
  task[k].pc = "d_create" /\ \E f \in MayFail : Apply(k, d_create(DB, task[k], f), f)
MarkAsDetected(k) ==
  task[k].pc = "d_markAsDetected" /\ \E f \in MayFail : Apply(k, d_markAsDetected(DB, task[k], f), f)
LinkTransaction(k) ==
  task[k].pc = "d_linkTransaction" /\ \E f \in MayFail : Apply(k, d_linkTransaction(DB, task[k], f), f)
CreateDetectedEvent(k) ==
  task[k].pc = "d_createEvent" /\ \E f \in MayFail : Apply(k, d_createEvent(DB, task[k], f), f)
FindUnconfirmedTransactions(k) == task[k].pc = "s_find" /\ Apply(k, s_find(DB, task[k]), FALSE)
GetTransactionConfirmations(k) ==
  task[k].pc = "s_getConfirmations" /\ Apply(k, s_getConfirmations(DB, task[k]), FALSE)
UpdateConfirmations(k) ==
  /\ task[k].pc = "s_updateConfirmations"
  /\ \E f \in MayFail : Apply(k, s_updateConfirmations(DB, task[k], f), f)
SweepFindById(k) == task[k].pc = "s_findById" /\ Apply(k, s_findById(DB, task[k]), FALSE)
UpdatePaymentConfirmations(k) ==
  task[k].pc = "s_updatePayment" /\ \E f \in MayFail : Apply(k, s_updatePayment(DB, task[k], f), f)
MarkAsConfirmed(k) ==
  task[k].pc = "s_markAsConfirmed" /\ \E f \in MayFail : Apply(k, s_markAsConfirmed(DB, task[k], f), f)
CreateConfirmedEvent(k) ==
  task[k].pc = "s_createEvent" /\ \E f \in MayFail : Apply(k, s_createEvent(DB, task[k], f), f)

\* a reorganisation or eviction: the node no longer knows the transaction
EvictTransaction(t) ==
  /\ envSteps < MaxEnv /\ envSteps' = envSteps + 1
  /\ TxCur[t] = worker
  /\ chainTx[t] # -1
  /\ chainTx' = [chainTx EXCEPT ![t] = -1]
  /\ UNCHANGED <<clientvars, worker, expiryPassed, isRunning, dbvars, tip, addressCache,
                 lastScannedBlockHeight, zmq, isConnected, startHeight, task, invocations,
                 failures, transitions, everConfirmed>>

Next ==
  \/ \E t \in Tx : Broadcast(t)
  \/ \E S \in SUBSET Tx : NewBlock(S)
  \/ \E p \in Pay : Expire(p)
  \/ StartMonitor
  \/ StopMonitor
  \/ refreshAddressCache
  \/ ZmqListeningError
  \/ ZmqReconnect
  \/ \E k \in Task : StartPoll(k)
  \/ DeliverZmq
  \/ StartTimerSweep
  \/ \E k \in Task : GetBlockCount(k)
  \/ \E k \in Task : ListUnspent(k)
  \/ \E k \in Task : ScanFindByTxid(k)
  \/ \E k \in Task : ScanFindByCryptoAddress(k)
  \/ \E k \in Task : ScanGetRawTransaction(k)
  \/ \E k \in Task : DecodeRawTransaction(k)
  \/ \E k \in Task : GetRawTransaction(k)
  \/ \E k \in Task : MatchTransactionToPayment(k)
  \/ \E k \in Task : ProcessFindByTxid(k)
  \/ \E k \in Task : CreateTransaction(k)
  \/ \E k \in Task : MarkAsDetected(k)
  \/ \E k \in Task : LinkTransaction(k)
  \/ \E k \in Task : CreateDetectedEvent(k)
  \/ \E k \in Task : FindUnconfirmedTransactions(k)
  \/ \E k \in Task : GetTransactionConfirmations(k)
  \/ \E k \in Task : UpdateConfirmations(k)
  \/ \E k \in Task : SweepFindById(k)
  \/ \E k \in Task : UpdatePaymentConfirmations(k)
  \/ \E k \in Task : MarkAsConfirmed(k)
  \/ \E k \in Task : CreateConfirmedEvent(k)

Spec == Init /\ [][Next]_vars

\* the monitors on a chain that may drop transactions
NextReorg ==
  \/ Next
  \/ \E t \in Tx : EvictTransaction(t)

SpecReorg == Init /\ [][NextReorg]_vars

\* ------------------------------------------------- the RPC client on its own
RpcConstruct(m, d) ==
  /\ rpc.pc = "unconstructed"
  /\ rpc' = construct(m, d)
  /\ UNCHANGED <<monitorvars, conf, memo, sub, zm, mon, mo>>

RpcCall ==
  /\ rpc.pc \in {"idle", "returned", "thrown"}
  /\ rpc' = call_begin(rpc)
  /\ UNCHANGED <<monitorvars, conf, memo, sub, zm, mon, mo>>

RpcPost(reply) ==
  /\ rpc.pc = "post"
  /\ rpc' = call_post(rpc, reply)
  /\ UNCHANGED <<monitorvars, conf, memo, sub, zm, mon, mo>>

RpcSleep ==
  /\ rpc.pc = "sleep"
  /\ rpc' = call_sleep(rpc)
  /\ UNCHANGED <<monitorvars, conf, memo, sub, zm, mon, mo>>

NextRpc ==
  \/ \E m \in 0..MaxConfigRetries, d \in RetryDelays : RpcConstruct(m, d)
  \/ RpcCall
  \/ \E reply \in Replies : RpcPost(reply)
  \/ RpcSleep

SpecRpc == Init /\ [][NextRpc]_vars

\* ------------------------------------------ the clients' helper methods alone
ConfCall(chain, node) ==
  /\ conf.pc \in {"idle", "returned", "thrown"}
  /\ conf' = gtc_begin(chain, node)
  /\ UNCHANGED <<monitorvars, rpc, memo, sub, zm, mon, mo>>

ConfGetRawTransaction(o) ==
  /\ conf.pc = "getRawTransaction"
  /\ conf' = gtc_getRawTransaction(conf, o)
  /\ UNCHANGED <<monitorvars, rpc, memo, sub, zm, mon, mo>>

ConfIsTransactionInMempool(o) ==
  /\ conf.pc = "isTransactionInMempool"
  /\ conf' = gtc_isTransactionInMempool(conf, o)
  /\ UNCHANGED <<monitorvars, rpc, memo, sub, zm, mon, mo>>

MemoEncode(m) ==
  /\ memo.pc = "idle"
  /\ memo' = [NoMemo EXCEPT !.pc = IF encodeMemo(m).ok THEN "encoded" ELSE "threw",
                            !.input = m, !.hex = encodeMemo(m).hex]
  /\ UNCHANGED <<monitorvars, rpc, conf, sub, zm, mon, mo>>

\* the memo goes through the node and comes back in a received note
MemoPad ==
  /\ memo.pc = "encoded" /\ ~memo.padded /\ memo.hex # <<>>
  /\ memo' = [memo EXCEPT !.hex = PadMemo(@), !.padded = TRUE]
  /\ UNCHANGED <<monitorvars, rpc, conf, sub, zm, mon, mo>>

MemoDecode ==
  /\ memo.pc = "encoded"
  /\ memo' = [memo EXCEPT !.pc = "decoded", !.out = decodeMemo(memo.hex)]
  /\ UNCHANGED <<monitorvars, rpc, conf, sub, zm, mon, mo>>


NextClient ==
  \/ \E chain \in Chains, node \in -1..MaxConfs : ConfCall(chain, node)
  \/ \E o \in RpcOutcomes : ConfGetRawTransaction(o)
  \/ \E o \in RpcOutcomes : ConfIsTransactionInMempool(o)
  \/ \E m \in MemoInputs : MemoEncode(m)
  \/ MemoPad
  \/ MemoDecode

SpecClient == Init /\ [][NextClient]_vars

\* -------------------------------------------------- the subscriber on its own
SubStep(c) ==
  /\ sub' = c
  /\ UNCHANGED <<monitorvars, rpc, conf, memo, zm, mon, mo>>

SubConstruct(m) == ~sub.constructed /\ SubStep(zmq_construct(m))

SubOn(topic) ==
  /\ sub.constructed /\ sub.created = 0 /\ sub.delays = <<>>
  /\ sub.handlers[topic] < MaxHandlers
  /\ SubStep(zmq_on(sub, topic))

\* connect() called by the monitor
SubConnect(ok) ==
  /\ sub.constructed /\ ~sub.isConnected /\ sub.reconnectTimer = 0
  /\ ok => sub.created < MaxSockets
  /\ SubStep(zmq_connect(sub, ok))

\* the reconnect timer fires
SubReconnectTimer(ok) ==
  /\ sub.reconnectTimer # 0
  /\ ok => sub.created < MaxSockets
  /\ SubStep(zmq_connect([sub EXCEPT !.reconnectTimer = 0], ok))

\* the node publishes a message; the subscriber's socket receives it
SubPublish(topic) ==
  /\ sub.socket # 0 /\ sub.arrived < MaxMessages
  /\ SubStep([sub EXCEPT !.arrived = @ + 1,
                         !.sockets[sub.socket].queue =
                            Append(@, [topic |-> topic, id |-> sub.arrived + 1])])

SubNext(k) ==
  /\ sub.sockets[k].pc = "next" /\ sub.sockets[k].queue # <<>>
  /\ SubStep(listen_next(sub, k))

SubHandlerDone(k, throws) ==
  /\ sub.sockets[k].pc = "handler"
  /\ SubStep(listen_handlerDone(sub, k, throws))

SubListeningError(k) ==
  /\ sub.sockets[k].pc = "next"
  /\ SubStep(listen_error(sub, k))

SubDisconnect ==
  /\ sub.constructed /\ ~sub.isShuttingDown /\ sub.created > 0
  /\ SubStep(zmq_disconnect(sub))

NextZmq ==
  \/ \E m \in 0..MaxConfigAttempts : SubConstruct(m)
  \/ \E topic \in ZmqTopics : SubOn(topic)
  \/ \E ok \in BOOLEAN : SubConnect(ok)
  \/ \E ok \in BOOLEAN : SubReconnectTimer(ok)
  \/ \E topic \in ZmqTopics : SubPublish(topic)
  \/ \E k \in 1..MaxSockets : SubNext(k)
  \/ \E k \in 1..MaxSockets, throws \in BOOLEAN : SubHandlerDone(k, throws)
  \/ \E k \in 1..MaxSockets : SubListeningError(k)
  \/ SubDisconnect

SpecZmq == Init /\ [][NextZmq]_vars

\* ------------------------------------- the Zcash monitor's caches and amounts
ZStep(c) ==
  /\ zm' = c
  /\ UNCHANGED <<monitorvars, rpc, conf, memo, sub, mon, mo>>

ZInitialize ==
  /\ ~zm.initialized /\ zm.refresh[1].pc = "idle"
  /\ ZStep(zm_initialize(zm))

\* the addressCacheRefreshInterval timer fires
ZRefreshTimer(k) ==
  /\ zm.initialized /\ zm.refresh[k].pc = "idle" /\ zm.refreshes < MaxRefreshes
  /\ ZStep([zm EXCEPT !.refreshes = @ + 1,
                      !.refresh[k] = [NoRefresh EXCEPT !.pc = "findByStatus"]])

ZRefreshStep(k, ok) ==
  /\ zm.refresh[k].pc # "idle"
  /\ ZStep(refresh_step(zm, k, ok))

\* a payment changes status outside the monitor (confirmed, expired, failed)
ZStatusChange(p, st) ==
  /\ zm.changes < MaxStatusChanges /\ zm.status[p] # st
  /\ ZStep([zm EXCEPT !.status[p] = st, !.changes = @ + 1])

\* a customer pays
ZSend(t, v) ==
  /\ zm.chain[t] = 0
  /\ ZStep([zm EXCEPT !.chain[t] = v])

\* the operator imports a viewing key into zcashd by hand
ZOperatorImport(p) ==
  /\ ZPayAddr[p][1] = "z" /\ ZPayAddr[p] \notin zm.nodeKeys
  /\ ZStep([zm EXCEPT !.nodeKeys = @ \cup {ZPayAddr[p]}])

ZScanTransparent(t) ==
  /\ zm.initialized /\ zm.chain[t] # 0
  /\ ZPayAddr[ZTxPay[t]] \in zm.transparentAddressCache
  /\ ZStep(scanTransparent_utxo(zm, t))

ZScanShielded(i, t) ==
  /\ zm.initialized /\ zm.chain[t] # 0
  /\ i \in 1..Len(zm.shieldedAddressCache)
  /\ ZPayAddr[ZTxPay[t]] = zm.shieldedAddressCache[i].address
  /\ ZStep(scanShielded_entry(zm, zm.shieldedAddressCache[i], t))

NextZcash ==
  \/ ZInitialize
  \/ \E k \in RefreshSlots : ZRefreshTimer(k)
  \/ \E k \in RefreshSlots, ok \in BOOLEAN : ZRefreshStep(k, ok)
  \/ \E p \in ZPay, st \in {"confirmed", "expired", "pending"} : ZStatusChange(p, st)
  \/ \E t \in ZTx, v \in 1..MaxAmount : ZSend(t, v)
  \/ \E p \in ZPay : ZOperatorImport(p)
  \/ \E t \in ZTx : ZScanTransparent(t)
  \/ \E i \in 1..Cardinality(ZPay), t \in ZTx : ZScanShielded(i, t)

SpecZcash == Init /\ [][NextZcash]_vars

\* ------------------------------------------------ a monitor's life cycle
MonStep(c) ==
  /\ mon' = c
  /\ UNCHANGED <<monitorvars, rpc, conf, memo, sub, zm, mo>>

MonConstruct(chain) ==
  /\ ~mon.constructed
  /\ MonStep([mon EXCEPT !.constructed = TRUE, !.chain = chain])

\* the worker calls initialize()
MonInitialize ==
  /\ mon.constructed /\ mon.init = "none" /\ mon.initPc = "idle"
  /\ MonStep([mon EXCEPT !.initPc = "testConnection"])

MonInitStep(ok) ==
  /\ mon.initPc # "idle"
  /\ MonStep(init_step(mon, ok))

\* start() is called on an initialized monitor
MonStart(k) ==
  /\ mon.init = "ok" /\ mon.starts[k] = "idle" /\ mon.calls < MaxCalls
  /\ mon.inflight < MaxInflight
  /\ MonStep(start_begin([mon EXCEPT !.calls = @ + 1], k))

MonStartResume(k, ok) ==
  /\ mon.starts[k] = "connect"
  /\ MonStep(start_resume(mon, k, ok))

MonStop ==
  /\ mon.init = "ok" /\ mon.stop = "idle" /\ mon.calls < MaxCalls
  /\ MonStep(stop_begin([mon EXCEPT !.calls = @ + 1]))

\* stop() of the Bitcoin monitor after disconnect()
MonStopResume ==
  /\ mon.stop = "disconnect"
  /\ MonStep([mon EXCEPT !.stop = "idle", !.stopped = ~mon.isRunning])

\* an interval fires or the subscriber delivers a message: a handler starts
MonHandlerStart(src) ==
  /\ mon.inflight < MaxInflight
  /\ \/ src = "poll" /\ mon.pollTimers > 0
     \/ src = "refresh" /\ mon.refreshTimers > 0
     \/ src = "zmq" /\ mon.zmqConnected
  /\ MonStep([mon EXCEPT !.inflight = @ + 1])

\* a handler in flight writes to a repository
MonHandlerWrite ==
  /\ mon.inflight > 0 /\ mon.writes < MaxWrites
  /\ MonStep([mon EXCEPT !.writes = @ + 1])

MonHandlerDone ==
  /\ mon.inflight > 0
  /\ MonStep([mon EXCEPT !.inflight = @ - 1])

NextLife ==
  \/ \E chain \in Chains : MonConstruct(chain)
  \/ MonInitialize
  \/ \E ok \in BOOLEAN : MonInitStep(ok)
  \/ \E k \in StartCalls : MonStart(k)
  \/ \E k \in StartCalls, ok \in BOOLEAN : MonStartResume(k, ok)
  \/ MonStop
  \/ MonStopResume
  \/ \E src \in {"poll", "refresh", "zmq"} : MonHandlerStart(src)
  \/ MonHandlerWrite
  \/ MonHandlerDone

SpecLife == Init /\ [][NextLife]_vars

\* ------------------------------------- rawtx with several outputs
MoStep(c) ==
  /\ mo' = c
  /\ UNCHANGED <<monitorvars, rpc, conf, memo, sub, zm, mon>>

\* a rawtx message is delivered; the cache holds the addresses of the payments
\* that are pending
MoRawTx(t, vout) ==
  /\ mo.pc \in {"idle", "done"} /\ t \notin mo.seen
  /\ MoStep([mo EXCEPT !.pc = "vout", !.txid = t, !.vout = vout, !.i = 1, !.seen = @ \cup {t},
                       !.addressCache = {MoAddr[p] : p \in {q \in MoPay : mo.status[q] = "pending"}}])

MoVout ==
  /\ mo.pc = "vout"
  /\ MoStep(mo_onNewTransaction(mo))

NextMulti ==
  \/ \E t \in MoTx, n \in 1..MaxVout : \E vout \in [1..n -> MoAddresses] : MoRawTx(t, vout)
  \/ MoVout

SpecMulti == Init /\ [][NextMulti]_vars

\* ------------------------------------------------------------ properties
\* C1: a payment's status only moves pending -> detected -> confirmed; it never
\* skips detected, never moves backwards and never leaves confirmed.  (The step
\* pending -> expired is the payment service's, not the monitor's.)
C1_StatusMonotonic ==
  [][\A p \in Pay :
       (/\ payments[p].status \in {"pending", "detected", "confirmed"}
        /\ payments'[p].status # payments[p].status)
       => <<payments[p].status, payments'[p].status>> \in
             {<<"pending", "detected">>, <<"detected", "confirmed">>,
              <<"pending", "expired">>}]_vars

\* C2: for a payment that is neither pending nor detected, and was not when the
\* handlers in flight looked it up, no step writes anything: its status, txid and
\* detected_at stay, no record is created for it and no payment.detected event is
\* emitted for it.
C2_TerminalPaymentUntouched ==
  [][\A p \in Pay :
       (/\ payments[p].status \notin {"pending", "detected"}
        /\ \A k \in Task : (Active(task[k]) /\ task[k].pid = p)
                              => task[k].pstatus \notin {"pending", "detected"})
       => /\ payments'[p].status = payments[p].status
          /\ payments'[p].txid = payments[p].txid
          /\ payments'[p].detected_at = payments[p].detected_at
          /\ Len(findByPaymentId(blockchain_transactions', p)) =
               Len(findByPaymentId(blockchain_transactions, p))
          /\ webhook_events'[<<p, "payment.detected">>] =
               webhook_events[<<p, "payment.detected">>]]_vars

\* C3: in every reachable state a detected payment has a non-null txid and a
\* record with that txid exists.
C3_DetectedHasLinkedRecord ==
  \A p \in Pay :
     payments[p].status = "detected" =>
        /\ payments[p].txid # NoTx
        /\ findByTxid(DB, payments[p].txid)

\* C4: once a payment is detected and linked, its txid never changes.
C4_LinkedTxidStable ==
  [][\A p \in Pay :
       (payments[p].status \in {"detected", "confirmed"} /\ payments[p].txid # NoTx)
          => payments'[p].txid = payments[p].txid]_vars

\* C5: there are never two records with the same (chain, txid, destination address).
C5_NoDuplicateRecord ==
  \A i, j \in 1..Len(blockchain_transactions) :
     (/\ blockchain_transactions[i].crypto_currency = blockchain_transactions[j].crypto_currency
      /\ blockchain_transactions[i].txid = blockchain_transactions[j].txid
      /\ blockchain_transactions[i].to_address = blockchain_transactions[j].to_address)
     => i = j

\* a handler's create was rejected by the constraint, after another one inserted
\* the record between this handler's findByTxid and its create
C5_Witness ==
  \E k \in Task : task[k].err = "unique" /\ Len(blockchain_transactions) > 0

\* C6: of two detection handlers that ran concurrently on the same pending
\* payment, at most one created a record and at most one emitted payment.detected.
C6_OneConcurrentDetection ==
  (/\ task[1].overlapped /\ task[2].overlapped
   /\ task[1].sawPending # NoPay
   /\ task[1].sawPending = task[2].sawPending)
  => /\ ~(task[1].created /\ task[2].created)
     /\ ~(task[1].emitted /\ task[2].emitted)

\* C7: once the handlers have returned, every payment has as many payment.detected
\* events as pending -> detected transitions were performed on it, and at most one.
C7_OneDetectedEventPerTransition ==
  (\A k \in Task : ~Active(task[k]))
  => \A p \in Pay : /\ webhook_events[<<p, "payment.detected">>] = transitions[p]
                    /\ webhook_events[<<p, "payment.detected">>] <= 1

\* C8: of two confirmation sweeps that ran concurrently, at most one transitioned
\* a given payment to confirmed (and so at most one emits its payment.confirmed).
C8_OneConcurrentConfirmation ==
  (/\ task[1].overlapped /\ task[2].overlapped
   /\ task[1].confirmedPid # NoPay)
  => task[1].confirmedPid # task[2].confirmedPid

\* ---- match-and-detect run to completion, without repository failures
DetectPcs == {"b_matchTransactionToPayment", "d_findByTxid", "d_create",
              "d_markAsDetected", "d_linkTransaction", "d_createEvent"}

DetectStep(D, l) ==
  CASE l.pc = "b_matchTransactionToPayment" -> b_matchTransactionToPayment(D, l)
    [] l.pc = "d_findByTxid" -> d_findByTxid(D, l)
    [] l.pc = "d_create" -> d_create(D, l, FALSE)
    [] l.pc = "d_markAsDetected" -> d_markAsDetected(D, l, FALSE)
    [] l.pc = "d_linkTransaction" -> d_linkTransaction(D, l, FALSE)
    [] OTHER -> d_createEvent(D, l, FALSE)

RECURSIVE RunSteps(_, _)
RunSteps(D, l) ==
  IF l.pc \notin DetectPcs THEN D
  ELSE RunSteps(DetectStep(D, l).db, DetectStep(D, l).l)

\* processTransaction(tx) of the Bitcoin monitor; processZcashTransaction(payment,
\* txid, ...) of the Zcash monitor, with the payment the scan found for the address
processTransaction(D, t) ==
  IF TxCur[t] = "BTC"
  THEN RunSteps(D, [Idle EXCEPT !.pc = "b_matchTransactionToPayment", !.kind = "rawtx",
                                !.cur = Item(t), !.conf = Confirmations(t)])
  ELSE RunSteps(D, [Idle EXCEPT !.pc = "d_findByTxid", !.kind = "zpoll",
                                !.cur = Item(t), !.conf = Confirmations(t),
                                !.pid = findByCryptoAddress(D, TxTo[t]),
                                !.pstatus = D.payments[findByCryptoAddress(D, TxTo[t])].status])

\* the transactions the running monitor can be handed
Observable == {t \in Tx : TxCur[t] = worker /\ chainTx[t] >= 0}

\* C9: match-and-detect run twice in sequence on the same transaction leaves the
\* three tables as they were after the first run.
C9_DetectIdempotent ==
  \A t \in Observable :
     processTransaction(processTransaction(DB, t), t) = processTransaction(DB, t)

\* a state in which the first run detects the payment (it writes the tables)
C9_Witness ==
  \E t \in Observable :
     /\ processTransaction(DB, t) # DB
     /\ processTransaction(DB, t).webhook_events # webhook_events
     /\ processTransaction(processTransaction(DB, t), t) = processTransaction(DB, t)

\* C10: every payment that is or has been confirmed has a record whose stored
\* confirmations are at least the threshold.
C10_ConfirmedHasConfirmedRecord ==
  \A p \in Pay :
     (p \in everConfirmed \/ payments[p].status = "confirmed")
     => \E i \in 1..Len(blockchain_transactions) :
           /\ blockchain_transactions[i].payment_id = p
           /\ blockchain_transactions[i].confirmations >= Threshold

\* ---- a confirmation sweep run to completion, without repository failures
SweepStep(D, l) ==
  CASE l.pc = "s_find" -> s_find(D, l)
    [] l.pc = "s_getConfirmations" -> s_getConfirmations(D, l)
    [] l.pc = "s_updateConfirmations" -> s_updateConfirmations(D, l, FALSE)
    [] l.pc = "s_findById" -> s_findById(D, l)
    [] l.pc = "s_updatePayment" -> s_updatePayment(D, l, FALSE)
    [] l.pc = "s_markAsConfirmed" -> s_markAsConfirmed(D, l, FALSE)
    [] OTHER -> s_createEvent(D, l, FALSE)

RECURSIVE RunSweep(_, _)
RunSweep(D, l) ==
  IF l.pc \notin SweepPcs THEN D
  ELSE RunSweep(SweepStep(D, l).db, SweepStep(D, l).l)

updateAllConfirmations(D, cur) ==
  RunSweep(D, [Idle EXCEPT !.pc = "s_find",
                           !.kind = IF cur = "ZEC" THEN "zpoll" ELSE "timer"])

\* a sweep reads c confirmations for a record of payment p and does not skip it
Observes(D, p, c) ==
  \E i \in 1..Len(D.blockchain_transactions) :
     LET row == D.blockchain_transactions[i]
     IN /\ row.payment_id = p
        /\ row.crypto_currency = worker
        /\ row.confirmations < Threshold
        /\ getTransactionConfirmations(row.txid) = c
        /\ row.confirmations # c

\* C11: a sweep that observes exactly Threshold - 1 confirmations (and nothing
\* higher) for a detected payment leaves it detected; a sweep that observes
\* exactly Threshold confirmations leaves it confirmed.
C11_ThresholdBoundary ==
  \A p \in Pay :
     (payments[p].status = "detected" /\ PayCur[p] = worker)
     => /\ Observes(DB, p, Threshold)
             => updateAllConfirmations(DB, worker).payments[p].status = "confirmed"
        /\ (/\ Observes(DB, p, Threshold - 1)
            /\ \A c \in Threshold..(MaxBlocks + 1) : ~Observes(DB, p, c))
             => updateAllConfirmations(DB, worker).payments[p].status = "detected"

\* a detected payment whose record the sweep observes at exactly Threshold
C11_Witness ==
  \E p \in Pay :
     /\ payments[p].status = "detected"
     /\ PayCur[p] = worker
     /\ Observes(DB, p, Threshold)
     /\ updateAllConfirmations(DB, worker).payments[p].status = "confirmed"
     /\ updateAllConfirmations(DB, worker).webhook_events[<<p, "payment.confirmed">>] = 1

Quiescent == \A k \in Task : ~Active(task[k])

\* C12: when no handler is in flight and a detected payment has a record whose
\* transaction has at least Threshold confirmations on chain, the next
\* confirmation sweep confirms the payment (so a running monitor, whose sweeps
\* recur, eventually does).
C12_SweepConfirmsDetected ==
  \A p \in Pay :
     (/\ isRunning /\ Quiescent
      /\ PayCur[p] = worker
      /\ payments[p].status = "detected"
      /\ \E i \in 1..Len(blockchain_transactions) :
            /\ blockchain_transactions[i].payment_id = p
            /\ blockchain_transactions[i].txid = payments[p].txid
            /\ Confirmations(blockchain_transactions[i].txid) >= Threshold)
     => updateAllConfirmations(DB, worker).payments[p].status = "confirmed"

\* ---- any handler run to its return, without repository failures
HandlerStep(D, l) ==
  IF l.pc \in DetectPcs THEN DetectStep(D, l)
  ELSE IF l.pc \in SweepPcs THEN SweepStep(D, l)
  ELSE CASE l.pc = "z_getBlockCount" -> z_getBlockCount(D, l)
         [] l.pc = "z_listUnspent" -> z_listUnspent(D, l)
         [] l.pc = "z_findByTxid" -> z_findByTxid(D, l)
         [] l.pc = "z_findByCryptoAddress" -> z_findByCryptoAddress(D, l)
         [] l.pc = "z_getRawTransaction" -> z_getRawTransaction(D, l)
         [] l.pc = "b_decodeRawTransaction" -> b_decodeRawTransaction(D, l)
         [] OTHER -> b_getRawTransaction(D, l)

RECURSIVE RunHandler(_, _)
RunHandler(D, l) ==
  IF ~Active(l) THEN D
  ELSE RunHandler(HandlerStep(D, l).db, HandlerStep(D, l).l)

pollBlockchain(D) ==
  RunHandler(D, [Idle EXCEPT !.pc = "z_getBlockCount", !.kind = "zpoll"])

\* the work a running monitor repeats on its timers: the Zcash poll, the Bitcoin
\* confirmationUpdateInterval sweep
TimerPass(D) ==
  IF worker = "ZEC" THEN pollBlockchain(D) ELSE updateAllConfirmations(D, "BTC")

\* transaction t pays pending payment p of the running monitor and is not recorded
Unseen(p, t) ==
  /\ PayCur[p] = worker
  /\ payments[p].status = "pending"
  /\ TxCur[t] = worker
  /\ TxTo[t] = PayAddr[p]
  /\ ~findByTxid(DB, t)

\* C13: a transaction mined while the monitor was stopped is detected once the
\* monitor runs again: when startup is over and nothing is in flight or
\* undelivered, the monitor's recurring work detects it.
C13_DetectedAfterRestart ==
  \A p \in Pay, t \in Tx :
     (/\ isRunning /\ Quiescent /\ zmq = <<>>
      /\ Unseen(p, t)
      /\ chainTx[t] >= 1 /\ chainTx[t] <= startHeight)
     => TimerPass(DB).payments[p].status = "detected"

\* C14: while the Bitcoin monitor runs, a transaction mined after startup whose
\* notifications were lost or ignored is detected by the periodic sweep.
C14_DetectedWithoutSubscriber ==
  \A p \in Pay, t \in Tx :
     (/\ worker = "BTC"
      /\ isRunning /\ isConnected /\ Quiescent /\ zmq = <<>>
      /\ Unseen(p, t)
      /\ chainTx[t] > startHeight)
     => TimerPass(DB).payments[p].status = "detected"

\* C15: the Zcash block cursor lastScannedBlockHeight never decreases, also when
\* two invocations of pollBlockchain overlap after reading different tips
C15_CursorMonotonic ==
  [][lastScannedBlockHeight' >= lastScannedBlockHeight]_vars

\* C16: a monitor restarted with cursor h while the tip is h + k resumes from h:
\* the cursor moves past the blocks h+1 .. h+k only when a poll has swept them,
\* never to a height that was not scanned
C16_CursorResume ==
  [][(~isRunning /\ isRunning' /\ invocations > 0)
       => lastScannedBlockHeight' = lastScannedBlockHeight]_vars

\* C17: a transaction matched while it is still in the mempool moves the pending
\* payment to detected and creates its record with confirmations = 0 and
\* block_height = null; the payment's confirmations stay 0.
C17_MempoolMatch ==
  \A t \in Observable, p \in Pay :
     (/\ chainTx[t] = 0 /\ ~findByTxid(DB, t)
      /\ TxTo[t] = PayAddr[p] /\ PayCur[p] = worker
      /\ (worker = "BTC" => PayAddr[p] \in addressCache)
      /\ payments[p].status = "pending" /\ payments[p].confirmations = 0)
     => LET R == processTransaction(DB, t)
            rows == SelectSeq(R.blockchain_transactions, LAMBDA r : r.txid = t)
        IN /\ R.payments[p].status = "detected"
           /\ R.payments[p].confirmations = 0
           /\ Len(rows) = 1
           /\ rows[1].payment_id = p
           /\ rows[1].confirmations = 0
           /\ rows[1].block_height = NoBlock

\* a running monitor is handed a mempool transaction paying a pending payment
C17_Witness ==
  \E t \in Observable, p \in Pay :
     /\ isRunning /\ chainTx[t] = 0 /\ ~findByTxid(DB, t)
     /\ TxTo[t] = PayAddr[p] /\ PayCur[p] = worker
     /\ (worker = "BTC" => PayAddr[p] \in addressCache)
     /\ payments[p].status = "pending" /\ payments[p].confirmations = 0
     /\ processTransaction(DB, t).payments[p].status = "detected"
     /\ Len(processTransaction(DB, t).blockchain_transactions) = Len(blockchain_transactions) + 1

C20_TerminalNodeErrors ==
  (rpc.pc \in {"post", "sleep", "returned", "thrown"} /\ rpc.replies # <<>>)
  => LET last == rpc.replies[Len(rpc.replies)]
         terminal == {"-32601", "-32602", "-5", "-8"}
     IN /\ last.code \in terminal
             => /\ rpc.pc = "thrown"
                /\ rpc.lastError.code = last.code
                /\ Len(rpc.sleeps) = Len(rpc.replies) - 1
        /\ rpc.replies[1].code \in terminal => Len(rpc.replies) = 1
        /\ (~Succeeds(last) /\ last.code \notin terminal /\ Len(rpc.replies) < rpc.maxRetries)
             => rpc.pc \in {"sleep", "post"}

\* C21: getTransactionConfirmations returns the confirmation count of a
\* transaction the node knows, 0 for one in the mempool and -1 only for one the
\* node does not know; a transport failure is never reported as -1.
C21_ConfirmationsNotFound ==
  conf.pc = "returned"
  => /\ conf.result = conf.node
     /\ conf.result = -1 => ~conf.transport

\* the number of bytes of the UTF-8 encoding of a memo, counted per character:
\* 1 below U+0080, 2 below U+0800, 4 for a surrogate pair, 3 otherwise
Utf8Length(m) ==
  LET I == 1..Len(m)
      high == {i \in I : IsHigh(m[i]) /\ i < Len(m) /\ IsLow(m[i + 1])}
      low == {i \in I : i - 1 \in high}
      rest == I \ (high \cup low)
  IN 4 * Cardinality(high)
     + Cardinality({i \in rest : m[i] < 128})
     + 2 * Cardinality({i \in rest : m[i] \in 128..2047})
     + 3 * Cardinality({i \in rest : m[i] >= 2048})

\* C22: encodeMemo accepts a memo exactly when its UTF-8 encoding has at most 512
\* bytes (the result has two hex digits per byte) and throws when it has 513 or
\* more; the empty memo encodes to the empty string.
C22_MemoLimit ==
  memo.pc # "idle"
  => /\ memo.pc = "threw" <=> Utf8Length(memo.input) >= 513
     /\ (memo.pc = "encoded" /\ ~memo.padded) => Len(memo.hex) = 2 * Utf8Length(memo.input)
     /\ memo.input = <<>> => memo.hex = <<>>

\* a memo of exactly 512 bytes, with a multi-byte character, was accepted
C22_Witness ==
  /\ memo.pc = "encoded" /\ ~memo.padded
  /\ Utf8Length(memo.input) = 512 /\ Len(memo.input) < 512
  /\ Len(memo.hex) = 1024

WellFormed(m) ==
  \A i \in 1..Len(m) :
     /\ IsHigh(m[i]) => (i < Len(m) /\ IsLow(m[i + 1]))
     /\ IsLow(m[i]) => (i > 1 /\ IsHigh(m[i - 1]))

\* C23 as stated: for every memo of at most 512 bytes without a NUL character,
\* decodeMemo(encodeMemo(m)) = m.
C23_MemoRoundTripAnyString ==
  (memo.pc = "decoded" /\ ~memo.padded /\ \A i \in 1..Len(memo.input) : memo.input[i] # 0)
  => memo.out = memo.input

\* C23 (amended): for every memo of at most 512 bytes that has no NUL character
\* and no unpaired surrogate, decodeMemo(encodeMemo(m)) = m, also when the hex
\* string comes back padded with NUL bytes; NUL characters of the memo itself are
\* stripped; decodeMemo('') = ''.
C23_MemoRoundTrip ==
  memo.pc = "decoded"
  => /\ WellFormed(memo.input)
          => memo.out = SelectSeq(memo.input, LAMBDA u : u # 0)
     /\ memo.hex = <<>> => memo.out = <<>>

\* a padded memo of several characters, one of them of four bytes, came back
C23_Witness ==
  /\ memo.pc = "decoded" /\ memo.padded
  /\ Len(memo.input) > 1 /\ WellFormed(memo.input)
  /\ \E i \in 1..Len(memo.input) : IsHigh(memo.input[i])
  /\ \A i \in 1..Len(memo.input) : memo.input[i] # 0
  /\ memo.out = memo.input

\* ----------------------------------------------------------------------- C24
\* C24: a handler that throws while a subscriber message is processed does not
\* tear down the stream: the subscriber's connection state, reconnect counter
\* and timer are untouched, the messages its socket holds stay, the next handler
\* registered for that message is started, and after the last handler the loop
\* is back at the socket for the next message.
C24_HandlerFailureIsolated ==
  [][\A k \in 1..MaxSockets :
       (/\ sub.sockets[k].pc = "handler"
        /\ sub.socket = k
        /\ Len(sub'.log) > Len(sub.log)
        /\ sub'.log[Len(sub.log) + 1] = <<"throw", sub.sockets[k].cur, sub.sockets[k].h>>)
       => /\ sub'.isConnected = sub.isConnected
          /\ sub'.reconnectAttempts = sub.reconnectAttempts
          /\ sub'.reconnectTimer = sub.reconnectTimer
          /\ sub'.sockets[k].queue = sub.sockets[k].queue
          /\ IF sub.sockets[k].h < sub.handlers[sub.sockets[k].topic]
             THEN /\ sub'.sockets[k].pc = "handler"
                  /\ sub'.log[Len(sub'.log)] =
                       <<"start", sub.sockets[k].cur, sub.sockets[k].h + 1>>
             ELSE sub'.sockets[k].pc = "next"]_vars

\* the first handler of a message threw, its second handler ran, and a later
\* message was delivered
C24_Witness ==
  \E i, j, n \in 1..Len(sub.log) :
    /\ i < j /\ j < n
    /\ sub.log[i][1] = "throw" /\ sub.log[i][3] = 1
    /\ sub.log[j] = <<"start", sub.log[i][2], 2>>
    /\ sub.log[n][1] = "start" /\ sub.log[n][2] > sub.log[i][2]

\* ----------------------------------------------------------------------- C25
\* C25: the subscriber delivers messages in the order received, each to each
\* handler at most once, and starts a handler only when every handler started
\* before has completed: in the log every start is directly followed by its own
\* completion, and the starts are strictly increasing in (message, handler).
C25_OrderedNoOverlap ==
  /\ \A i \in 1..Len(sub.log) :
       IF sub.log[i][1] = "start"
       THEN i < Len(sub.log) =>
              /\ sub.log[i + 1][1] \in {"end", "throw"}
              /\ sub.log[i + 1][2] = sub.log[i][2]
              /\ sub.log[i + 1][3] = sub.log[i][3]
       ELSE i > 1 /\ sub.log[i - 1][1] = "start"
  /\ \A i, j \in 1..Len(sub.log) :
       (i < j /\ sub.log[i][1] = "start" /\ sub.log[j][1] = "start")
       => \/ sub.log[i][2] < sub.log[j][2]
          \/ sub.log[i][2] = sub.log[j][2] /\ sub.log[i][3] < sub.log[j][3]
  /\ Cardinality({k \in 1..MaxSockets : sub.sockets[k].pc = "handler"}) <= 1

\* two messages were waiting on the socket together and both went through two
\* handlers
C25_Witness ==
  /\ Len(sub.log) = 8
  /\ sub.log[1] = <<"start", 1, 1>>
  /\ sub.log[7] = <<"start", 2, 2>>
  /\ sub.log[8][1] = "end"

C27_CacheIsSnapshot ==
  LET expected == {ZPayAddr[p] : p \in {q \in ZPay : /\ ZPayCur[q] = "ZEC"
                                                     /\ zm.snapshot[q] \in {"pending", "detected"}}}
      m == zm.shieldedAddressCache
  IN /\ zm.transparentAddressCache = {a \in expected : a[1] # "z"}
     /\ {m[i].address : i \in 1..Len(m)} = {a \in expected : a[1] = "z"}
     /\ \A i, j \in 1..Len(m) : m[i].address = m[j].address => i = j
     /\ \A i \in 1..Len(m) : ZPayAddr[m[i].paymentId] = m[i].address

\* two timer refreshes are complete; the last one dropped the confirmed
\* transparent payment and kept the shielded one, a Bitcoin payment pending
\* all along, and the payments have changed since it queried
C27_Witness ==
  /\ zm.refreshes = 2 /\ \A k \in RefreshSlots : zm.refresh[k].pc = "idle"
  /\ zm.snapshot["p1"] = "confirmed" /\ zm.snapshot["p3"] = "pending"
  /\ zm.transparentAddressCache = {}
  /\ Len(zm.shieldedAddressCache) = 1
  /\ zm.status # zm.snapshot

\* ----------------------------------------------------------------------- C28
\* C28: once initialize() and every refresh have completed, z_importViewingKey
\* has been submitted for every address of the shielded map; an address is in
\* the imported set only after a successful import of it, and is not imported
\* again after a successful import.
C28_ViewKeysImported ==
  LET m == zm.shieldedAddressCache
      calls == zm.imports
  IN /\ (zm.initialized /\ \A k \in RefreshSlots : zm.refresh[k].pc = "idle")
        => \A i \in 1..Len(m) : \E j \in 1..Len(calls) : calls[j].address = m[i].address
     /\ \A a \in zm.viewKeysImported :
          \E j \in 1..Len(calls) : calls[j].address = a /\ calls[j].ok
     /\ \A i, j \in 1..Len(calls) :
          (i < j /\ calls[i].address = calls[j].address) => ~calls[i].ok

C30_StoredAmountArrived ==
  \A r \in zm.records : r.amount = zm.chain[r.txid]

\* ----------------------------------------------------------------------- C37
\* C37: with a chain whose confirmations only grow, the confirmation count
\* stored in a transaction record never decreases, whatever the interleaving of
\* the confirmation sweeps.
C37_RecordConfirmationsMonotonic ==
  [][\A i \in 1..Len(blockchain_transactions) :
       blockchain_transactions'[i].confirmations >= blockchain_transactions[i].confirmations]_vars

\* ----------------------------------------------------------------------- C38
\* C38: the confirmations field of a confirmed payment never decreases.
C38_ConfirmedPaymentConfirmationsMonotonic ==
  [][\A p \in Pay :
       payments[p].status = "confirmed"
       => payments'[p].confirmations >= payments[p].confirmations]_vars

\* ----------------------------------------------------------------------- C39
\* C39: when the query of an address-cache refresh throws, both caches keep
\* exactly their content, the call completes (nothing is thrown out of the timer
\* callback: the refresh is over, no import is awaited) and nothing else of the
\* monitor changes, so the next tick of the timer refreshes again.
C39_FailedRefreshKeepsCache ==
  [][\A k \in RefreshSlots :
       zm'.failed[k] > zm.failed[k]
       => /\ zm'.transparentAddressCache = zm.transparentAddressCache
          /\ zm'.shieldedAddressCache = zm.shieldedAddressCache
          /\ zm'.refresh[k].pc = "idle"
          /\ zm' = [zm EXCEPT !.failed[k] = @ + 1, !.refresh[k] = zm'.refresh[k],
                              !.initialized = zm'.initialized]]_vars

\* the query of initialize() succeeded, the one timer refresh made since failed,
\* and the caches still hold the payments read at startup although the
\* transparent payment has been confirmed meanwhile
C39_Witness ==
  /\ zm.failed[2] = 1 /\ zm.refreshes = 1 /\ zm.refresh[2].pc = "idle"
  /\ zm.snapshot["p1"] = "pending" /\ zm.status["p1"] = "confirmed"
  /\ zm.transparentAddressCache = {ZPayAddr["p1"]}
  /\ Len(zm.shieldedAddressCache) = 1

\* ----------------------------------------------------------------------- C40
\* C40: a subscriber that was disconnected and has connected again processes
\* what its socket receives: while it reports connected, the listening loop of
\* its socket has not ended.
C40_RestartedSubscriberListens ==
  (sub.isConnected /\ sub.socket # 0) => sub.sockets[sub.socket].pc # "ended"

\* ----------------------------------------------------------------------- C31
\* C31: when the node cannot be reached during initialize() (testConnection is
\* false or getBlockchainInfo throws), initialize() rejects, and the monitor is
\* not running: no interval exists, no subscriber was created or connected.
C31_UnreachableNodeRejects ==
  mon.rpcFailed
  => /\ mon.initPc = "idle" /\ mon.init = "rejected"
     /\ ~mon.isRunning /\ mon.pollTimers = 0 /\ mon.refreshTimers = 0
     /\ ~mon.subscriber /\ ~mon.zmqConnected

\* initialize() of a Bitcoin monitor has rejected on the unreachable node
C31_Witness ==
  mon.chain = "BTC" /\ mon.rpcFailed /\ mon.init = "rejected" /\ ~mon.subscriber

\* ----------------------------------------------------------------------- C32
\* C32: when the query for the non-terminal payments throws during
\* initialize(), initialize() does not resolve.
C32_FailedLoadRejects ==
  mon.queryFailed => mon.init # "ok"

\* ----------------------------------------------------------------------- C33
\* C33: the monitor is not running before start() was called and after stop()
\* returned; at any time at most one polling/confirmation interval and at most
\* one cache-refresh interval exist, and none once stop() has returned.
C33_OneTimerEach ==
  /\ mon.calls = 0 => ~mon.isRunning
  /\ mon.pollTimers <= 1 /\ mon.refreshTimers <= 1
  /\ mon.stopped => ~mon.isRunning /\ mon.pollTimers = 0 /\ mon.refreshTimers = 0

\* ----------------------------------------------------------------------- C34
\* C34: once stop() has returned (and until the monitor is started again), no
\* repository write is made and no handler starts.
C34_QuietAfterStop ==
  [][(mon.stopped /\ mon'.stopped)
     => mon'.writes = mon.writes /\ mon'.inflight <= mon.inflight]_vars

\* ----------------------------------------------------------------------- C36
\* C36: when the handler is through with a transaction that has outputs to the
\* addresses of two payments that were both pending (and monitored) when it
\* arrived, both payments are detected and each has its own record for (txid,
\* its address).
C36_BothPaymentsDetected ==
  (/\ mo.pc = "done"
   /\ \A p \in MoPay : MoAddr[p] \in mo.addressCache
                       /\ \E k \in 1..Len(mo.vout) : mo.vout[k] = MoAddr[p])
  => \A p \in MoPay :
       /\ mo.status[p] = "detected"
       /\ \E r \in mo.records : r.txid = mo.txid /\ r.to_address = MoAddr[p]
                                /\ r.payment_id = p

\* ----------------------------------------------------------------------- C35
\* C35: for a detected payment whose linked transaction the node reports as not
\* found, one confirmation sweep leaves the payment and the records as they are,
\* and three consecutive sweeps clear the linked transaction and reset the
\* payment to pending.
C35_ReorgResetsAfterThreeMisses ==
  \A p \in Pay :
     (/\ Quiescent /\ PayCur[p] = worker
      /\ payments[p].status = "detected"
      /\ payments[p].txid # NoTx
      /\ getTransactionConfirmations(payments[p].txid) = -1)
     => LET once == updateAllConfirmations(DB, worker)
            thrice == updateAllConfirmations(updateAllConfirmations(once, worker), worker)
        IN /\ once.payments[p] = payments[p]
           /\ once.blockchain_transactions = blockchain_transactions
           /\ thrice.payments[p].status = "pending"
           /\ thrice.payments[p].txid = NoTx

====
